---- MODULE Spec2Model ----
(***************************************************************************)
(* Model of scrubby's detection-and-redaction engine:                      *)
(*   src/src/detectors.rs  (detect, shannon_entropy)                       *)
(*   src/src/redactor.rs   (redact, replace_with_count, replace_tokens)    *)
(*   src/src/lib.rs        (scrub_text_with_options)                       *)
(*                                                                         *)
(* A text is a sequence of characters; a character is a one-character      *)
(* string, except the non-ASCII letter U+00E9, written "U+00E9", which     *)
(* stands for any alphabetic character outside ASCII (two bytes in UTF-8). *)
(* Positions are 1-based; a span <<s, e>> covers the characters s..e-1.    *)
(***************************************************************************)
EXTENDS Integers, Sequences, FiniteSets, TLC

\* ------------------------------------------------------------------------
\* Character classes of the five patterns
\* ------------------------------------------------------------------------

Lower ==
  {"a","b","c","d","e","f","g","h","i","j","k","l","m",
   "n","o","p","q","r","s","t","u","v","w","x","y","z"}

Upper ==
  {"A","B","C","D","E","F","G","H","I","J","K","L","M",
   "N","O","P","Q","R","S","T","U","V","W","X","Y","Z"}

Digit ==
  {"0","1","2","3","4","5","6","7","8","9"}

Alpha ==
  Lower \cup Upper

Alnum ==
  Alpha \cup Digit

HexDigit ==
  Digit \cup {"a","b","c","d","e","f","A","B","C","D","E","F"}

\* an alphabetic character outside ASCII: a word character for \b, member
\* of none of the bracketed classes
NonAscii ==
  {"U+00E9"}

\* the characters \b treats as word characters
WordChar ==
  Alnum \cup {"_"} \cup NonAscii

\* [A-Za-z0-9._%+-]
EmailLocalChar ==
  Alnum \cup {".", "_", "%", "+", "-"}

\* [A-Za-z0-9.-]
EmailDomainChar ==
  Alnum \cup {".", "-"}

\* [A-Za-z0-9_-]
Base64UrlChar ==
  Alnum \cup {"_", "-"}

\* ------------------------------------------------------------------------
\* Text helpers
\* ------------------------------------------------------------------------

\* the character at position i, or "" outside the text
CharAt(t, i) ==
  IF i >= 1 /\ i <= Len(t) THEN t[i] ELSE ""

\* \b between positions i-1 and i
Boundary(t, i) ==
  (CharAt(t, i - 1) \in WordChar) # (CharAt(t, i) \in WordChar)

\* end (exclusive) of the longest run of characters of class cls from i:
\* the first position at or after i whose character is not in cls
RunEnd(t, i, cls) ==
  CHOOSE j \in i..(Len(t) + 1) :
    /\ CharAt(t, j) \notin cls
    /\ \A k \in i..(j - 1) : t[k] \in cls

\* a greedy repetition that must end on \b gives back characters until it
\* does: the largest e in lo..hi with \b at e, or 0
LastBoundary(t, lo, hi) ==
  IF \E e \in lo..hi : Boundary(t, e)
  THEN CHOOSE e \in lo..hi :
         Boundary(t, e) /\ \A k \in (e + 1)..hi : ~Boundary(t, k)
  ELSE 0

\* ------------------------------------------------------------------------
\* The five patterns (the regex crate: leftmost-first, greedy repetitions).
\* Each XxxEndAt(t, i) is the end (exclusive) of the match that starts at
\* position i, or 0 when no match starts there.
\* ------------------------------------------------------------------------

\* "\.[A-Za-z]{2,}\b" at m: the end of the match, or 0
EmailTldEndAt(t, m) ==
  IF CharAt(t, m) = "."
  THEN LastBoundary(t, m + 3, RunEnd(t, m + 1, Alpha))
  ELSE 0

\* [A-Za-z0-9.-]+ has taken j..hi-1 and gives characters back, longest
\* first, until "\.[A-Za-z]{2,}\b" matches where it stops: the end of the
\* match for the largest such m in j+1..hi, or 0
EmailDomainBacktrack(t, j, hi) ==
  IF \E m \in (j + 1)..hi : EmailTldEndAt(t, m) # 0
  THEN EmailTldEndAt(t, CHOOSE m \in (j + 1)..hi :
                          /\ EmailTldEndAt(t, m) # 0
                          /\ \A k \in (m + 1)..hi : EmailTldEndAt(t, k) = 0)
  ELSE 0

\* \b[A-Za-z0-9._%+-]+@[A-Za-z0-9.-]+\.[A-Za-z]{2,}\b
EmailEndAt(t, i) ==
  LET a == RunEnd(t, i, EmailLocalChar)
  IN  IF ~Boundary(t, i) \/ a = i \/ CharAt(t, a) # "@" THEN 0
      ELSE EmailDomainBacktrack(t, a + 1, RunEnd(t, a + 1, EmailDomainChar) - 1)

\* an octet pattern that has lost its one-digit alternative
OctetOk_no_single_digit(t, p, len) ==
  CASE len = 3 ->
         \/ /\ CharAt(t, p) = "2" /\ CharAt(t, p + 1) = "5"
            /\ CharAt(t, p + 2) \in {"0","1","2","3","4","5"}
         \/ /\ CharAt(t, p) = "2" /\ CharAt(t, p + 1) \in {"0","1","2","3","4"}
            /\ CharAt(t, p + 2) \in Digit
         \/ /\ CharAt(t, p) = "1" /\ CharAt(t, p + 1) \in Digit
            /\ CharAt(t, p + 2) \in Digit
    [] len = 2 -> CharAt(t, p) \in Digit /\ CharAt(t, p + 1) \in Digit
    [] OTHER   -> FALSE

\* (?:25[0-5]|2[0-4]\d|1?\d?\d) matches the len characters from p
OctetOk(t, p, len) ==
  CASE len = 3 ->
         \/ /\ CharAt(t, p) = "2" /\ CharAt(t, p + 1) = "5"
            /\ CharAt(t, p + 2) \in {"0","1","2","3","4","5"}
         \/ /\ CharAt(t, p) = "2" /\ CharAt(t, p + 1) \in {"0","1","2","3","4"}
            /\ CharAt(t, p + 2) \in Digit
         \/ /\ CharAt(t, p) = "1" /\ CharAt(t, p + 1) \in Digit
            /\ CharAt(t, p + 2) \in Digit
    [] len = 2 -> CharAt(t, p) \in Digit /\ CharAt(t, p + 1) \in Digit
    [] OTHER   -> CharAt(t, p) \in Digit

\* n octets remain from p: the first three are each followed by ".", the
\* last by \b; the longer alternative of an octet is tried first
RECURSIVE IpFrom(_, _, _)
IpTry(t, p, n, len) ==
  IF ~OctetOk(t, p, len) THEN 0
  ELSE IF n = 1 THEN (IF Boundary(t, p + len) THEN p + len ELSE 0)
  ELSE IF CharAt(t, p + len) = "." THEN IpFrom(t, p + len + 1, n - 1)
  ELSE 0

IpFrom(t, p, n) ==
  LET r3 == IpTry(t, p, n, 3)
  IN  IF r3 # 0 THEN r3
      ELSE LET r2 == IpTry(t, p, n, 2)
           IN  IF r2 # 0 THEN r2 ELSE IpTry(t, p, n, 1)

\* \b(?:(?:25[0-5]|2[0-4]\d|1?\d?\d)\.){3}(?:25[0-5]|2[0-4]\d|1?\d?\d)\b
Ipv4EndAt(t, i) ==
  IF ~Boundary(t, i) THEN 0 ELSE IpFrom(t, i, 4)

\* the pattern with any hexadecimal digit as version nibble
UuidV4Pattern_any_version ==
  [k \in 1..36 |->
     IF k \in {9, 14, 19, 24} THEN {"-"}
     ELSE IF k = 20 THEN {"8", "9", "a", "b", "A", "B"}
     ELSE HexDigit]

\* the class of each of the 36 characters of 8-4-4-4-12, version nibble 4,
\* variant nibble 8, 9, a or b
UuidV4Pattern ==
  [k \in 1..36 |->
     IF k \in {9, 14, 19, 24} THEN {"-"}
     ELSE IF k = 15 THEN {"4"}
     ELSE IF k = 20 THEN {"8", "9", "a", "b", "A", "B"}
     ELSE HexDigit]

\* \b[0-9a-fA-F]{8}-[0-9a-fA-F]{4}-4[0-9a-fA-F]{3}-[89abAB][0-9a-fA-F]{3}-[0-9a-fA-F]{12}\b
UuidV4EndAt(t, i) ==
  IF /\ Boundary(t, i)
     /\ \A k \in 1..36 : CharAt(t, i + k - 1) \in UuidV4Pattern[k]
     /\ Boundary(t, i + 36)
  THEN i + 36 ELSE 0

\* \b[A-Za-z0-9_-]+\.[A-Za-z0-9_-]+\.[A-Za-z0-9_-]+\b
JwtEndAt(t, i) ==
  LET a == RunEnd(t, i, Base64UrlChar)
      b == RunEnd(t, a + 1, Base64UrlChar)
      c == RunEnd(t, b + 1, Base64UrlChar)
  IN  IF \/ ~Boundary(t, i)
         \/ a = i \/ CharAt(t, a) # "."
         \/ b = a + 1 \/ CharAt(t, b) # "."
      THEN 0
      ELSE LastBoundary(t, b + 2, c)

\* \b[A-Za-z0-9_-]{32,}\b
TokenCandidateEndAt(t, i) ==
  IF ~Boundary(t, i) THEN 0
  ELSE LastBoundary(t, i + 32, RunEnd(t, i, Base64UrlChar))

\* the five statics EMAIL_RE .. TOKEN_CANDIDATE_RE, by name
MatchEndAt(re, t, i) ==
  CASE re = "EMAIL_RE"           -> EmailEndAt(t, i)
    [] re = "IPV4_RE"            -> Ipv4EndAt(t, i)
    [] re = "UUID_V4_RE"         -> UuidV4EndAt(t, i)
    [] re = "JWT_RE"             -> JwtEndAt(t, i)
    [] re = "TOKEN_CANDIDATE_RE" -> TokenCandidateEndAt(t, i)

\* Regex::find_iter: the leftmost match at or after pos, then the leftmost
\* one at or after its end, and so on; the spans in order.  starts holds
\* the positions where a match of re starts.
\* a find_iter that looks for the next match one character after the start
\* of the last one instead of at its end
RECURSIVE FindIterFrom_overlapping(_, _, _, _)
FindIterFrom_overlapping(re, t, starts, pos) ==
  LET rest == {i \in starts : i >= pos}
  IN  IF rest = {} THEN << >>
      ELSE LET s == CHOOSE i \in rest : \A j \in rest : i <= j
               e == MatchEndAt(re, t, s)
           IN  << <<s, e>> >> \o FindIterFrom_overlapping(re, t, starts, s + 1)

RECURSIVE FindIterFrom(_, _, _, _)
FindIterFrom(re, t, starts, pos) ==
  LET rest == {i \in starts : i >= pos}
  IN  IF rest = {} THEN << >>
      ELSE LET s == CHOOSE i \in rest : \A j \in rest : i <= j
               e == MatchEndAt(re, t, s)
           IN  << <<s, e>> >> \o FindIterFrom(re, t, starts, e)

FindIter(re, t) ==
  FindIterFrom(re, t, {i \in 1..Len(t) : MatchEndAt(re, t, i) # 0}, 1)

\* ------------------------------------------------------------------------
\* Byte offsets: the code holds a text as UTF-8 and a span as the byte
\* offsets Match::start() and Match::end(), counted from 0
\* ------------------------------------------------------------------------

\* the UTF-8 encoding of a character
Utf8Of(c) ==
  IF c \in NonAscii THEN <<"0xC3", "0xA9">> ELSE <<c>>

\* the bytes 0x80..0xBF, which never start a character
ContinuationByte ==
  {"0xA9"}

\* the UTF-8 encoding of a text
RECURSIVE Utf8(_)
Utf8(t) ==
  IF t = << >> THEN << >>
  ELSE IF Len(t) = 1 THEN Utf8Of(t[1])
  ELSE Utf8(SubSeq(t, 1, Len(t) \div 2)) \o Utf8(SubSeq(t, (Len(t) \div 2) + 1, Len(t)))

\* str::is_char_boundary: the offset b is 0, the length, or the offset of a
\* byte that starts a character; a slice at any other offset panics
is_char_boundary(bytes, b) ==
  \/ b = 0
  \/ b = Len(bytes)
  \/ b > 0 /\ b < Len(bytes) /\ bytes[b + 1] \notin ContinuationByte

\* offsets counted in characters instead of bytes
ByteOffset_in_chars(t, i) ==
  i - 1

\* the byte offset of the character position i of t: what Match::start()
\* and Match::end() give for a match that starts or ends there
ByteOffset(t, i) ==
  (i - 1) + Cardinality({k \in 1..(i - 1) : t[k] \in NonAscii})

\* (m.start(), m.end()) of the span <<s, e>> of character positions
ByteSpan(t, span) ==
  <<ByteOffset(t, span[1]), ByteOffset(t, span[2])>>

\* ------------------------------------------------------------------------
\* detectors.rs: shannon_entropy and detect
\* ------------------------------------------------------------------------

\* the UTF-8 bytes of a character: an ASCII character is its own byte,
\* U+00E9 is the two bytes C3 A9
BytesOf(c) ==
  IF c \in NonAscii THEN {"0xC3", "0xA9"} ELSE {c}

\* counts[b] of shannon_entropy: how often the byte b occurs in s
ByteCount(s, b) ==
  Cardinality({k \in 1..Len(s) : b \in BytesOf(s[k])})

\* log2 in fixed point: Log2E6[k] = log2(k) * 10^6, rounded, k in 1..200
Log2E6 ==
  <<
           0, 1000000, 1584963, 2000000, 2321928, 2584963, 2807355, 3000000,
     3169925, 3321928, 3459432, 3584963, 3700440, 3807355, 3906891, 4000000,
     4087463, 4169925, 4247928, 4321928, 4392317, 4459432, 4523562, 4584963,
     4643856, 4700440, 4754888, 4807355, 4857981, 4906891, 4954196, 5000000,
     5044394, 5087463, 5129283, 5169925, 5209453, 5247928, 5285402, 5321928,
     5357552, 5392317, 5426265, 5459432, 5491853, 5523562, 5554589, 5584963,
     5614710, 5643856, 5672425, 5700440, 5727920, 5754888, 5781360, 5807355,
     5832890, 5857981, 5882643, 5906891, 5930737, 5954196, 5977280, 6000000,
     6022368, 6044394, 6066089, 6087463, 6108524, 6129283, 6149747, 6169925,
     6189825, 6209453, 6228819, 6247928, 6266787, 6285402, 6303781, 6321928,
     6339850, 6357552, 6375039, 6392317, 6409391, 6426265, 6442943, 6459432,
     6475733, 6491853, 6507795, 6523562, 6539159, 6554589, 6569856, 6584963,
     6599913, 6614710, 6629357, 6643856, 6658211, 6672425, 6686501, 6700440,
     6714246, 6727920, 6741467, 6754888, 6768184, 6781360, 6794416, 6807355,
     6820179, 6832890, 6845490, 6857981, 6870365, 6882643, 6894818, 6906891,
     6918863, 6930737, 6942515, 6954196, 6965784, 6977280, 6988685, 7000000,
     7011227, 7022368, 7033423, 7044394, 7055282, 7066089, 7076816, 7087463,
     7098032, 7108524, 7118941, 7129283, 7139551, 7149747, 7159871, 7169925,
     7179909, 7189825, 7199672, 7209453, 7219169, 7228819, 7238405, 7247928,
     7257388, 7266787, 7276124, 7285402, 7294621, 7303781, 7312883, 7321928,
     7330917, 7339850, 7348728, 7357552, 7366322, 7375039, 7383704, 7392317,
     7400879, 7409391, 7417853, 7426265, 7434628, 7442943, 7451211, 7459432,
     7467606, 7475733, 7483816, 7491853, 7499846, 7507795, 7515700, 7523562,
     7531381, 7539159, 7546894, 7554589, 7562242, 7569856, 7577429, 7584963,
     7592457, 7599913, 7607330, 7614710, 7622052, 7629357, 7636625, 7643856
  >>

\* the sum, over the bytes of the set bs, of f of the number of times the
\* byte occurs in s: f = "len" sums the counts, f = "clogc" sums c * log2(c)
RECURSIVE SumOverBytes(_, _, _)
SumOverBytes(s, bs, f) ==
  IF bs = {} THEN 0
  ELSE LET b == CHOOSE x \in bs : TRUE
           c == ByteCount(s, b)
       IN  (IF f = "len" THEN c ELSE c * Log2E6[c])
           + SumOverBytes(s, bs \ {b}, f)

\* the value the loop of shannon_entropy computes, in real numbers, times
\* 10^6 and rounded down:  -sum p*log2(p) with p = c/len, which is
\* log2(len) - (sum c*log2(c)) / len; 0 for the empty string
EntropyE6(s) ==
  LET bs == UNION {BytesOf(s[k]) : k \in 1..Len(s)}
      n  == SumOverBytes(s, bs, "len")
  IN  IF n = 0 THEN 0
      ELSE (n * Log2E6[n] - SumOverBytes(s, bs, "clogc")) \div n

\* 48 characters: a 12 times, b and c 9 times each, d..u once each.  The
\* entropy is log2(48) - (12*log2(12) + 18*log2(9))/48 = 3.5 exactly; the
\* f64 loop, which adds p * p.log2() byte by byte, ends at
\* 3.4999999999999996
TieRun48 ==
  <<"a", "a", "a", "a", "a", "a", "a", "a", "a", "a", "a", "a", "b", "b",
    "b", "b", "b", "b", "b", "b", "b", "c", "c", "c", "c", "c", "c", "c",
    "c", "c", "d", "e", "f", "g", "h", "i", "j", "k", "l", "m", "n", "o",
    "p", "q", "r", "s", "t", "u">>

\* the strings for which the f64 sum of shannon_entropy ends below the
\* real value by so little that only a comparison with that value shows it
F64RoundsBelow ==
  {TieRun48}

\* an entropy that is the logarithm of the length, whatever the bytes are
shannon_entropy_of_length(s) ==
  IF s = << >> THEN 0 ELSE Log2E6[Len(s)]

\* shannon_entropy(s) * 10^6 as the f64 arithmetic of the code gives it
shannon_entropy(s) ==
  IF s \in F64RoundsBelow THEN EntropyE6(s) - 1 ELSE EntropyE6(s)

\* the 3.5 of detect, in the same fixed point
DetectThresholdE6 ==
  3500000

\* replace_tokens with the entropy test always passing
RedactThresholdOff ==
  0

\* the 3.5 of replace_tokens
RedactThresholdE6 ==
  3500000

\* the spans of ms whose text scores at least the threshold
RECURSIVE HighEntropySpans(_, _)
HighEntropySpans(t, ms) ==
  IF ms = << >> THEN << >>
  ELSE (IF shannon_entropy(SubSeq(t, Head(ms)[1], Head(ms)[2] - 1)) >= DetectThresholdE6
        THEN <<Head(ms)>> ELSE << >>)
       \o HighEntropySpans(t, Tail(ms))

\* detect: every pattern is run over the same, original input
detect(input) ==
  [emails |-> FindIter("EMAIL_RE", input),
   ips    |-> FindIter("IPV4_RE", input),
   uuids  |-> FindIter("UUID_V4_RE", input),
   jwts   |-> FindIter("JWT_RE", input),
   tokens |-> HighEntropySpans(input, FindIter("TOKEN_CANDIDATE_RE", input))]

\* ------------------------------------------------------------------------
\* redactor.rs: replace_with_count, replace_tokens and redact
\*
\* A pass takes the record the pass before it returned: out is the text,
\* counts the RedactionCounts so far.  Beside them every pass carries org,
\* which is not in the code:
\* org[k] tells where the k-th character comes from in the input of redact.
\* A copied character has [from |-> p, to |-> p + 1, ph |-> FALSE], p its
\* position in that input; a character of a placeholder has ph |-> TRUE and
\* from..to-1 the positions of the input that the placeholder stands for.
\* hit records that a replaced span held a character of an earlier
\* placeholder.
\* ------------------------------------------------------------------------

\* RedactionCounts::default() and Summary::default()
CountsDefault ==
  [emails |-> 0, ips |-> 0, uuids |-> 0, jwts |-> 0, tokens |-> 0]

EMAIL_PLACEHOLDER ==
  <<"<", "E", "M", "A", "I", "L", ">">>

IP_PLACEHOLDER ==
  <<"<", "I", "P", ">">>

UUID_PLACEHOLDER ==
  <<"<", "U", "U", "I", "D", ">">>

\* the JWT placeholder written without its angle brackets
JWT_PLACEHOLDER_bare ==
  <<"J", "W", "T">>

JWT_PLACEHOLDER ==
  <<"<", "J", "W", "T", ">">>

\* the fixed Token placeholder written with a number
TOKEN_PLACEHOLDER_numbered ==
  <<"<", "T", "O", "K", "E", "N", "_", "1", ">">>

TOKEN_PLACEHOLDER ==
  <<"<", "T", "O", "K", "E", "N", ">">>

\* the "<TOKEN_" that replace_tokens pushes before the number
TOKEN_PREFIX ==
  <<"<", "T", "O", "K", "E", "N", "_">>

DigitChars ==
  <<"0", "1", "2", "3", "4", "5", "6", "7", "8", "9">>

\* usize::to_string and the {} of format!: decimal, no leading zero
RECURSIVE to_string(_)
to_string(n) ==
  IF n < 10 THEN <<DigitChars[n + 1]>>
  ELSE to_string(n \div 10) \o <<DigitChars[(n % 10) + 1]>>

\* str::trim_end_matches(c)
RECURSIVE TrimEndMatches(_, _)
TrimEndMatches(s, c) ==
  IF s # << >> /\ s[Len(s)] = c
  THEN TrimEndMatches(SubSeq(s, 1, Len(s) - 1), c)
  ELSE s

\* numbering that starts at 0
NumberedPlaceholder_zero_based(replacement, counter) ==
  TrimEndMatches(replacement, ">") \o <<"_">> \o to_string(counter - 1) \o <<">">>

\* the closing '>' is not pushed, and the opening '<' is trimmed with it
NumberedPlaceholder_no_brackets(replacement, counter) ==
  SubSeq(TrimEndMatches(replacement, ">"), 2, Len(replacement) - 1)
  \o <<"_">> \o to_string(counter)

\* the '>' of the fixed placeholder is kept before the suffix
NumberedPlaceholder_untrimmed(replacement, counter) ==
  replacement \o <<"_">> \o to_string(counter) \o <<">">>

\* format!("{}_{}", replacement.trim_end_matches('>'), counter), then '>'
NumberedPlaceholder(replacement, counter) ==
  TrimEndMatches(replacement, ">") \o <<"_">> \o to_string(counter) \o <<">">>

\* the org of the input of redact
OrgOfInput(input) ==
  [k \in 1..Len(input) |-> [from |-> k, to |-> k + 1, ph |-> FALSE]]

\* the org of a placeholder of n characters written over the span s..e-1
OrgOfPlaceholder(org, s, e, n) ==
  [x \in 1..n |-> [from |-> org[s].from, to |-> org[e - 1].to, ph |-> TRUE]]

\* some character of the span s..e-1 belongs to a placeholder
HitsPlaceholder(org, s, e) ==
  \E k \in s..(e - 1) : org[k].ph

\* the state of the loops of replace_with_count and replace_tokens after
\* the match ms[k-1]: last is the 1-based position after it
RECURSIVE ReplaceLoop(_, _, _, _, _, _, _, _)
ReplaceLoop(input, org, ms, k, last, replacement, stable, acc) ==
  IF k > Len(ms)
  THEN [acc EXCEPT !.out = @ \o SubSeq(input, last, Len(input)),
                   !.org = @ \o SubSeq(org, last, Len(input))]
  ELSE LET m       == ms[k]
           counter == IF stable THEN acc.counter + 1 ELSE acc.counter
           ph      == IF stable THEN NumberedPlaceholder(replacement, counter)
                      ELSE replacement
       IN  ReplaceLoop(input, org, ms, k + 1, m[2], replacement, stable,
             [out     |-> acc.out \o SubSeq(input, last, m[1] - 1) \o ph,
              org     |-> acc.org \o SubSeq(org, last, m[1] - 1) \o OrgOfPlaceholder(org, m[1], m[2], Len(ph)),
              count   |-> acc.count + 1,
              counter |-> counter,
              hit     |-> acc.hit \/ HitsPlaceholder(org, m[1], m[2]),
              counts  |-> acc.counts])

\* replace_with_count whose last starts one character too far
replace_with_count_skips_first(prev, re, replacement, stable, counter) ==
  ReplaceLoop(prev.out, prev.org, FindIter(re, prev.out), 1, 2, replacement, stable,
              [out |-> << >>, org |-> << >>, count |-> 0, counter |-> counter,
               hit |-> prev.hit, counts |-> prev.counts])

\* replace_with_count(input, re, replacement, stable, &mut counter), input
\* being prev.out
replace_with_count(prev, re, replacement, stable, counter) ==
  ReplaceLoop(prev.out, prev.org, FindIter(re, prev.out), 1, 1, replacement, stable,
              [out |-> << >>, org |-> << >>, count |-> 0, counter |-> counter,
               hit |-> prev.hit, counts |-> prev.counts])

RECURSIVE TokenLoop(_, _, _, _, _, _, _)
TokenLoop(input, org, ms, k, last, stable, acc) ==
  IF k > Len(ms)
  THEN [acc EXCEPT !.out = @ \o SubSeq(input, last, Len(input)),
                   !.org = @ \o SubSeq(org, last, Len(input))]
  ELSE LET m       == ms[k]
           s       == SubSeq(input, m[1], m[2] - 1)
           high    == shannon_entropy(s) >= RedactThresholdE6
           counter == IF high /\ stable THEN acc.counter + 1 ELSE acc.counter
           ph      == IF stable THEN TOKEN_PREFIX \o to_string(counter) \o <<">">>
                      ELSE TOKEN_PLACEHOLDER
       IN  TokenLoop(input, org, ms, k + 1, m[2], stable,
             IF high
             THEN [out     |-> acc.out \o SubSeq(input, last, m[1] - 1) \o ph,
                   org     |-> acc.org \o SubSeq(org, last, m[1] - 1) \o OrgOfPlaceholder(org, m[1], m[2], Len(ph)),
                   count   |-> acc.count + 1,
                   counter |-> counter,
                   hit     |-> acc.hit \/ HitsPlaceholder(org, m[1], m[2]),
                   counts  |-> acc.counts]
             ELSE [acc EXCEPT !.out = @ \o SubSeq(input, last, m[1] - 1) \o s,
                              !.org = @ \o SubSeq(org, last, m[2] - 1)])

\* replace_tokens(input, stable, &mut counter), input being prev.out
replace_tokens(prev, stable, counter) ==
  TokenLoop(prev.out, prev.org, FindIter("TOKEN_CANDIDATE_RE", prev.out), 1, 1, stable,
            [out |-> << >>, org |-> << >>, count |-> 0, counter |-> counter,
             hit |-> prev.hit, counts |-> prev.counts])

\* what redact holds before its first pass: the input, counts at default
Unredacted(input) ==
  [out |-> input, org |-> OrgOfInput(input), count |-> 0, counter |-> 0,
   hit |-> FALSE, counts |-> CountsDefault]

\* counts.<field> += <the count the pass returned>
AddCount(p, field) ==
  [p EXCEPT !.counts[field] = @ + p.count]

\* RedactionResult { text, counts }
RedactionResult(p) ==
  [text |-> p.out, counts |-> p.counts, org |-> p.org, hit |-> p.hit]

\* redact with the Token pass run first, before the Email pass
redact_tokens_first(input, detections, options) ==
  LET stable == options.stable_placeholders
      p5 == AddCount(replace_tokens(Unredacted(input), stable, 0), "tokens")
      p1 == AddCount(replace_with_count(p5, "EMAIL_RE", EMAIL_PLACEHOLDER, stable, 0), "emails")
      p2 == AddCount(replace_with_count(p1, "IPV4_RE", IP_PLACEHOLDER, stable, 0), "ips")
      p3 == AddCount(replace_with_count(p2, "UUID_V4_RE", UUID_PLACEHOLDER, stable, 0), "uuids")
      p4 == AddCount(replace_with_count(p3, "JWT_RE", JWT_PLACEHOLDER, stable, 0), "jwts")
  IN  RedactionResult(p4)

\* redact with the last two passes swapped: Token before JWT
redact_tokens_before_jwt(input, detections, options) ==
  LET stable == options.stable_placeholders
      p1 == AddCount(replace_with_count(Unredacted(input), "EMAIL_RE", EMAIL_PLACEHOLDER, stable, 0), "emails")
      p2 == AddCount(replace_with_count(p1, "IPV4_RE", IP_PLACEHOLDER, stable, 0), "ips")
      p3 == AddCount(replace_with_count(p2, "UUID_V4_RE", UUID_PLACEHOLDER, stable, 0), "uuids")
      p5 == AddCount(replace_tokens(p3, stable, 0), "tokens")
      p4 == AddCount(replace_with_count(p5, "JWT_RE", JWT_PLACEHOLDER, stable, 0), "jwts")
  IN  RedactionResult(p4)

\* redact(input, _detections, options): each pass reads the text the pass
\* before it wrote; the five counters start at 0 in every call
redact(input, detections, options) ==
  LET stable == options.stable_placeholders
      p1 == AddCount(replace_with_count(Unredacted(input), "EMAIL_RE", EMAIL_PLACEHOLDER, stable, 0), "emails")
      p2 == AddCount(replace_with_count(p1, "IPV4_RE", IP_PLACEHOLDER, stable, 0), "ips")
      p3 == AddCount(replace_with_count(p2, "UUID_V4_RE", UUID_PLACEHOLDER, stable, 0), "uuids")
      p4 == AddCount(replace_with_count(p3, "JWT_RE", JWT_PLACEHOLDER, stable, 0), "jwts")
      p5 == AddCount(replace_tokens(p4, stable, 0), "tokens")
  IN  RedactionResult(p5)

\* ------------------------------------------------------------------------
\* Inputs
\* ------------------------------------------------------------------------

\* the input of tests/integration.rs, which is also the example of the
\* specification
ExampleInput ==
  <<"E", "m", "a", "i", "l", " ", "a", "@", "b", ".", "c", "o", "m", " ",
    "I", "P", " ", "1", "0", ".", "0", ".", "0", ".", "1", " ", "U", "U",
    "I", "D", " ", "1", "2", "3", "e", "4", "5", "6", "7", "-", "e", "8",
    "9", "b", "-", "4", "2", "d", "3", "-", "a", "4", "5", "6", "-", "5",
    "5", "6", "6", "4", "2", "4", "4", "0", "0", "0", "0", " ", "J", "W",
    "T", " ", "a", "a", "a", "a", ".", "b", "b", "b", "b", ".", "c", "c",
    "c", "c", " ", "T", "O", "K", "E", "N", " ", "A", "b", "C", "D", "e",
    "F", "0", "1", "2", "3", "4", "5", "6", "7", "8", "9", "A", "b", "C",
    "D", "e", "F", "0", "1", "2", "3", "4", "5", "6", "7", "8", "9">>

\* "a@b.com"
EmailFrag ==
  <<"a", "@", "b", ".", "c", "o", "m">>

\* "@b.com": makes an email of whatever local part stands before it
AtDomainFrag ==
  <<"@", "b", ".", "c", "o", "m">>

\* "1.2.3.4"
IpFrag ==
  <<"1", ".", "2", ".", "3", ".", "4">>

\* a version-4 UUID, the one of the tests
UuidV4Frag ==
  <<"1", "2", "3", "e", "4", "5", "6", "7", "-", "e", "8", "9", "b", "-",
    "4", "2", "d", "3", "-", "a", "4", "5", "6", "-", "5", "5", "6", "6",
    "4", "2", "4", "4", "0", "0", "0", "0">>

\* ".b.c": makes three dot-separated segments of the run before it
DotSegsFrag ==
  <<".", "b", ".", "c">>

\* 32 characters, 16 distinct ones twice each: entropy 4.0 (the token of
\* the tests)
HighEntropyFrag ==
  <<"A", "b", "C", "D", "e", "F", "0", "1", "2", "3", "4", "5", "6", "7",
    "8", "9", "A", "b", "C", "D", "e", "F", "0", "1", "2", "3", "4", "5",
    "6", "7", "8", "9">>

\* 32 times the same character: entropy 0
LowEntropyFrag ==
  <<"a", "a", "a", "a", "a", "a", "a", "a", "a", "a", "a", "a", "a", "a",
    "a", "a", "a", "a", "a", "a", "a", "a", "a", "a", "a", "a", "a", "a",
    "a", "a", "a", "a">>

Fragments ==
  {EmailFrag, AtDomainFrag, IpFrag, UuidV4Frag, DotSegsFrag,
   HighEntropyFrag, LowEntropyFrag, <<"-">>, <<"x">>, <<"U+00E9">>}

\* documents are built from at most MaxFrags fragments
MaxFrags ==
  3

\* a category occurs up to MaxRepeat times in the documents of RepeatDocs
MaxRepeat ==
  10

\* the numbered placeholders put into documents carry 1..MaxCounter
MaxCounter ==
  11

RECURSIVE Concat(_)
Concat(fs) ==
  IF fs = << >> THEN << >> ELSE Head(fs) \o Concat(Tail(fs))

FragDocs ==
  {Concat(fs) : fs \in UNION {[1..n -> Fragments] : n \in 0..MaxFrags}}

\* s written n times
Repeat(s, n) ==
  [k \in 1..(n * Len(s)) |-> s[((k - 1) % Len(s)) + 1]]

\* n sensitive strings of one category, separated by single spaces
RepeatDocs ==
  {Repeat(f \o <<" ">>, n) :
     f \in {EmailFrag, IpFrag, UuidV4Frag, <<"x">> \o DotSegsFrag, HighEntropyFrag},
     n \in 1..MaxRepeat}

Inputs ==
  FragDocs \cup RepeatDocs \cup {ExampleInput}

\* every placeholder redact can write with a counter up to MaxCounter
PlaceholderTexts ==
  {EMAIL_PLACEHOLDER, IP_PLACEHOLDER, UUID_PLACEHOLDER, JWT_PLACEHOLDER,
   TOKEN_PLACEHOLDER}
  \cup {NumberedPlaceholder(r, n) :
          r \in {EMAIL_PLACEHOLDER, IP_PLACEHOLDER, UUID_PLACEHOLDER, JWT_PLACEHOLDER},
          n \in 1..MaxCounter}
  \cup {TOKEN_PREFIX \o to_string(n) \o <<">">> : n \in 1..MaxCounter}

\* what may stand before a placeholder: text a pattern could start in
ContextsBefore ==
  {<< >>, <<" ">>, <<"x">>, <<"1">>, <<"U+00E9">>, <<"a", "@">>,
   <<"x", ".", "b", ".">>, <<"1", ".", "2", ".", "3", ".">>, HighEntropyFrag}

\* what may stand after a placeholder: text a pattern could end in
ContextsAfter ==
  {<< >>, <<" ">>, <<"x">>, <<"1">>, <<"U+00E9">>, AtDomainFrag, DotSegsFrag,
   <<".", "2", ".", "3", ".", "4">>, HighEntropyFrag}

\* a placeholder between two contexts, with the span the placeholder takes
MarkedDocs ==
  {[doc  |-> pre \o ph \o post,
    mark |-> <<Len(pre) + 1, Len(pre) + Len(ph) + 1>>] :
     pre \in ContextsBefore, ph \in PlaceholderTexts, post \in ContextsAfter}

\* the UUID of the tests with v as version nibble and r as variant nibble
UuidShaped(v, r) ==
  [UuidV4Frag EXCEPT ![15] = v, ![20] = r]

\* an 8-4-4-4-12 string of every version and variant nibble, alone, after
\* "id=" or between spaces; the mark is the span of the string
UuidDocs ==
  {[doc  |-> pre \o UuidShaped(v, r) \o post,
    mark |-> <<Len(pre) + 1, Len(pre) + 37>>] :
     pre \in {<< >>, <<" ">>, <<"i", "d", "=">>}, post \in {<< >>, <<" ">>},
     v \in HexDigit, r \in HexDigit}

\* 32 characters, four of them 4 times and eight twice: every p is a power
\* of two and the entropy is 3.5 exactly, in f64 as well
Exact35Run ==
  <<"a", "a", "a", "a", "b", "b", "b", "b", "c", "c", "c", "c", "d", "d",
    "d", "d", "e", "e", "f", "f", "g", "g", "h", "h", "i", "i", "j", "j",
    "k", "k", "l", "l">>

\* 32 characters with counts 7, 5, 3, 2 (six times) and 1 (five times):
\* entropy 3.4995
Below35Run ==
  <<"a", "a", "a", "a", "a", "a", "a", "b", "b", "b", "b", "b", "c", "c",
    "c", "d", "d", "e", "e", "f", "f", "g", "g", "h", "h", "i", "i", "j",
    "k", "l", "m", "n">>

\* 31 distinct characters: entropy 4.95, one character short of a candidate
Short31Run ==
  <<"A", "B", "C", "D", "E", "F", "G", "H", "I", "J", "K", "L", "M", "N",
    "O", "P", "Q", "R", "S", "T", "U", "V", "W", "X", "Y", "Z", "0", "1",
    "2", "3", "4">>

\* 33 characters with '-' and '_' among them: entropy 3.59
DashedHighRun ==
  <<"A", "-", "b", "_", "C", "-", "d", "_", "E", "-", "f", "_", "G", "-",
    "h", "_", "I", "-", "j", "_", "K", "-", "l", "_", "M", "-", "n", "_",
    "O", "-", "p", "_", "Q">>

TokenRuns ==
  {HighEntropyFrag, LowEntropyFrag, Exact35Run, Below35Run, Short31Run,
   DashedHighRun, TieRun48}

\* the documents of TokenDocs hold at most MaxRuns runs
MaxRuns ==
  2

\* the runs of rs, separated by single spaces
RECURSIVE JoinRuns(_)
JoinRuns(rs) ==
  IF rs = << >> THEN << >>
  ELSE IF Len(rs) = 1 THEN Head(rs)
  ELSE Head(rs) \o <<" ">> \o JoinRuns(Tail(rs))

TokenDocs ==
  {JoinRuns(rs) : rs \in UNION {[1..n -> TokenRuns] : n \in 0..MaxRuns}}

\* the documents of UniformDocs have every length up to MaxUniform
MaxUniform ==
  34

\* one character repeated: every length up to MaxUniform, and 64 and 200
UniformDocs ==
  {Repeat(<<c>>, n) : c \in {"a", "Z", "7", "_"},
                      n \in (0..MaxUniform) \cup {64, 200}}

\* ------------------------------------------------------------------------
\* lib.rs: scrub_text and scrub_text_with_options, as a state machine
\* ------------------------------------------------------------------------

VARIABLES
  input,       \* the text handed to scrub_text_with_options
  mark,        \* the span of input that is a placeholder put there on
               \* purpose, <<0, 0>> when there is none (not in the code)
  options,     \* ScrubOptions of the call
  detections,  \* Detections of detect(input)
  redacted,    \* RedactionResult of redact (with its org and hit)
  summary,     \* Summary returned beside the text
  again,       \* text and counts of a second call on redacted.text
  pc,          \* "ready", "scrubbed" after the call, "rescrubbed"
  calls,       \* the redact calls one process has made so far, in order:
               \* input and options of each with the text and counts it got
  scrub_text,  \* run_watch: scrub_text_with_options(t, options).0 for every
               \* text t the clipboard can hold, as a table
  clipboard,   \* the text in the system clipboard
  last_seen,   \* run_watch: the last clipboard text that differed from the
               \* one before
  last_written,\* run_watch: the last text it wrote to the clipboard
  sanitized,   \* run_watch: the text it is about to write
  watch_pc,    \* run_watch: "poll", "write", "sleep", "exit2", "exit3"
  copies,      \* how often the user has copied a text (not in the code)
  owner,       \* who put the clipboard text there, "user" or "scrubby"
               \* (not in the code)
  license_env, \* what check_license finds: the build, the environment, the
               \* licence file, the machine; with what the file was made to
               \* be (not in the code)
  verified,    \* the result of verify_license_file_with_key
  checked,     \* the result of check_license
  license_pc,  \* "ready", "verified", "checked"
  server,      \* the webhook server: its handler, secret, private key and
               \* whether its output directory can be written
  request,     \* the request the handler gets: headers and body
  response,    \* the status and text it answers
  written,     \* the licence files it has written
  webhook_pc,  \* "waiting", "received", "answered"
  desktop,     \* what detect_backend finds: the session variables that are
               \* set and the clipboard utilities that can be run
  backend,     \* the result of pick_backend
  config_text, \* the text of the config file
  parsed,      \* the result of parse_config
  argv,        \* the arguments of the scrubby command
  cli_env,     \* what the command finds: the features of the build, the
               \* licence environment, the config file
  cli,         \* main: its local variables
  cli_pc,      \* main: "args", "gate", "config", "run", "done"
  events       \* what the command has done so far, in order (not in the
               \* code)

scrubVars ==
  <<input, mark, options, detections, redacted, summary, again, pc>>

watchVars ==
  <<scrub_text, clipboard, last_seen, last_written, sanitized, watch_pc, copies, owner>>

licenseVars ==
  <<license_env, verified, checked, license_pc>>

webhookVars ==
  <<server, request, response, written, webhook_pc>>

backendVars ==
  <<desktop, backend>>

configVars ==
  <<config_text, parsed>>

cliVars ==
  <<argv, cli_env, cli, cli_pc, events>>

toolVars ==
  <<backendVars, configVars, cliVars>>

vars ==
  <<scrubVars, calls, watchVars, licenseVars, webhookVars, toolVars>>

\* ScrubOptions::default()
ScrubOptionsDefault ==
  [stable_placeholders |-> FALSE]

\* Detections::default()
DetectionsDefault ==
  [emails |-> << >>, ips |-> << >>, uuids |-> << >>, jwts |-> << >>,
   tokens |-> << >>]

NoResult ==
  [text |-> << >>, counts |-> CountsDefault, org |-> << >>, hit |-> FALSE]

NoRerun ==
  [text |-> << >>, counts |-> CountsDefault]

\* check_license has not been called
LicenseNotChecked ==
  /\ license_env = << >>
  /\ verified = << >>
  /\ checked = << >>
  /\ license_pc = "ready"

\* no webhook server runs
NoRequest ==
  /\ server = << >>
  /\ request = << >>
  /\ response = << >>
  /\ written = << >>
  /\ webhook_pc = "waiting"

\* pick_backend has not been called
BackendNotPicked ==
  /\ desktop = << >>
  /\ backend = << >>

\* parse_config has not been called
ConfigNotParsed ==
  /\ config_text = << >>
  /\ parsed = << >>

\* the scrubby command has not been started
CliNotStarted ==
  /\ argv = << >>
  /\ cli_env = << >>
  /\ cli = << >>
  /\ cli_pc = "args"
  /\ events = << >>

\* none of pick_backend, parse_config and the command has run
ToolsIdle ==
  BackendNotPicked /\ ConfigNotParsed /\ CliNotStarted

\* run_watch has not been started
WatchNotStarted ==
  /\ scrub_text = << >>
  /\ clipboard = << >>
  /\ last_seen = << >>
  /\ last_written = << >>
  /\ sanitized = << >>
  /\ watch_pc = "poll"
  /\ copies = 0
  /\ owner = "user"

InitRest ==
  /\ options = ScrubOptionsDefault
  /\ detections = DetectionsDefault
  /\ redacted = NoResult
  /\ summary = CountsDefault
  /\ again = NoRerun
  /\ pc = "ready"
  /\ calls = << >>
  /\ WatchNotStarted
  /\ LicenseNotChecked
  /\ NoRequest
  /\ ToolsIdle

Init ==
  /\ input \in Inputs
  /\ mark = <<0, 0>>
  /\ InitRest

InitMarked ==
  /\ \E d \in MarkedDocs : input = d.doc /\ mark = d.mark
  /\ InitRest

InitUuid ==
  /\ \E d \in UuidDocs : input = d.doc /\ mark = d.mark
  /\ InitRest

InitTokens ==
  /\ input \in TokenDocs \cup UniformDocs
  /\ mark = <<0, 0>>
  /\ InitRest

\* scrub_text_with_options(input, o): detect, redact, copy the counts;
\* scrub_text(input) is the call with o = ScrubOptions::default()
scrub_text_with_options(o) ==
  /\ pc = "ready"
  /\ options' = o
  /\ detections' = detect(input)
  /\ redacted' = redact(input, detections', o)
  /\ summary' = [emails |-> redacted'.counts.emails,
                 ips    |-> redacted'.counts.ips,
                 uuids  |-> redacted'.counts.uuids,
                 jwts   |-> redacted'.counts.jwts,
                 tokens |-> redacted'.counts.tokens]
  /\ pc' = "scrubbed"
  /\ UNCHANGED <<input, mark, again>>
  /\ UNCHANGED <<calls, watchVars, licenseVars, webhookVars, toolVars>>

\* the caller runs the pipeline again on the text it got back
Rescrub ==
  /\ pc = "scrubbed"
  /\ again' = [f \in {"text", "counts"} |->
                  redact(redacted.text, detect(redacted.text), options)[f]]
  /\ pc' = "rescrubbed"
  /\ UNCHANGED <<input, mark, options, detections, redacted, summary>>
  /\ UNCHANGED <<calls, watchVars, licenseVars, webhookVars, toolVars>>

Next ==
  \/ \E o \in [stable_placeholders : BOOLEAN] : scrub_text_with_options(o)
  \/ Rescrub

\* documents built from fragments, the example, repeated categories
Spec ==
  Init /\ [][Next]_vars

\* documents that hold a placeholder between two contexts
SpecMarked ==
  InitMarked /\ [][Next]_vars

\* documents that hold one 8-4-4-4-12 string
SpecUuid ==
  InitUuid /\ [][Next]_vars

\* documents made of runs of URL-safe base64 characters
SpecTokens ==
  InitTokens /\ [][Next]_vars

\* ------------------------------------------------------------------------
\* redactor.rs: redact called several times by one process
\* ------------------------------------------------------------------------

\* the documents of the repeated calls
CallDocs ==
  {Concat(<<EmailFrag, <<" ">>, IpFrag>>),
   Concat(<<EmailFrag, <<" ">>, EmailFrag, <<" ">>, DotSegsFrag>>),
   Concat(<<HighEntropyFrag, <<" ">>, UuidV4Frag>>),
   <<"x">>}

\* calls made in one run
MaxCalls ==
  3

\* a redact whose counts keep what the calls before it counted
CallRecord_accumulating(before, i, o) ==
  [input |-> i, options |-> o,
   text |-> redact(i, detect(i), o).text,
   counts |-> [c \in DOMAIN CountsDefault |->
                 redact(i, detect(i), o).counts[c]
                   + (IF before = << >> THEN 0
                      ELSE before[Len(before)].counts[c])]]

\* what the call redact(i, detect(i), o) gives after the calls before it:
\* redact keeps its output and its counters in locals and the patterns are
\* immutable statics, so nothing of the earlier calls enters
CallRecord(before, i, o) ==
  [input |-> i, options |-> o,
   text |-> redact(i, detect(i), o).text,
   counts |-> redact(i, detect(i), o).counts]

\* one more call of redact on the document i with the options o
redact_call(i, o) ==
  /\ Len(calls) < MaxCalls
  /\ calls' = Append(calls, CallRecord(calls, i, o))
  /\ UNCHANGED <<scrubVars, watchVars, licenseVars, webhookVars, toolVars>>

InitCalls ==
  /\ input = << >>
  /\ mark = <<0, 0>>
  /\ InitRest

NextCalls ==
  \E i \in CallDocs : \E o \in [stable_placeholders : BOOLEAN] : redact_call(i, o)

\* sequences of calls on documents that share sensitive strings
SpecCalls ==
  InitCalls /\ [][NextCalls]_vars

\* ------------------------------------------------------------------------
\* main.rs: run_watch, with the user of the clipboard
\* ------------------------------------------------------------------------

\* the texts the user copies: two with something to redact, one without
WatchTexts ==
  {EmailFrag, Concat(<<IpFrag, <<" ">>, EmailFrag>>), <<"x">>}

\* copies the user makes in one run
MaxCopies ==
  3

\* the texts the clipboard can hold: nothing, what the user copies, and what
\* the process writes
ClipboardTexts ==
  WatchTexts \cup {<< >>}
    \cup {redact(t, detect(t), o).text :
            t \in WatchTexts, o \in [stable_placeholders : BOOLEAN]}

\* scrub_text_with_options(t, o).0 for every text the clipboard can hold
ScrubbedText ==
  [o \in [stable_placeholders : BOOLEAN] |->
     [t \in ClipboardTexts |-> redact(t, detect(t), o).text]]

\* the text scrub_text_with_options gives for t under the options of the run
Sanitized(t) ==
  scrub_text[t]

\* the user copies the text t
user_copy(t) ==
  /\ copies < MaxCopies
  /\ clipboard' = t
  /\ copies' = copies + 1
  /\ owner' = "user"
  /\ UNCHANGED <<scrub_text, last_seen, last_written, sanitized, watch_pc>>
  /\ UNCHANGED <<scrubVars, calls, licenseVars, webhookVars, toolVars>>

\* one poll up to the write: read_clipboard gives the text, and when it is
\* not last_seen it becomes last_seen and is scrubbed; the write follows when
\* the scrubbed text differs from the text read and from last_written
poll(input_read) ==
  /\ watch_pc = "poll"
  /\ IF input_read # last_seen
     THEN /\ last_seen' = input_read
          /\ IF /\ Sanitized(input_read) # input_read
                /\ Sanitized(input_read) # last_written
             THEN /\ sanitized' = Sanitized(input_read)
                  /\ watch_pc' = "write"
             ELSE /\ watch_pc' = "sleep"
                  /\ UNCHANGED sanitized
     ELSE /\ watch_pc' = "sleep"
          /\ UNCHANGED <<last_seen, sanitized>>
  /\ UNCHANGED <<scrub_text, clipboard, last_written, copies, owner>>
  /\ UNCHANGED <<scrubVars, calls, licenseVars, webhookVars, toolVars>>

\* read_clipboard returns Ok with the clipboard text
read_clipboard_ok ==
  poll(clipboard)

\* read_clipboard returns Err: exit(2)
read_clipboard_err ==
  /\ watch_pc = "poll"
  /\ watch_pc' = "exit2"
  /\ UNCHANGED <<scrub_text, clipboard, last_seen, last_written, sanitized,
               copies, owner>>
  /\ UNCHANGED <<scrubVars, calls, licenseVars, webhookVars, toolVars>>

\* write_clipboard(&sanitized) returns Ok; last_written = sanitized
write_clipboard_ok ==
  /\ watch_pc = "write"
  /\ clipboard' = sanitized
  /\ owner' = "scrubby"
  /\ last_written' = sanitized
  /\ watch_pc' = "sleep"
  /\ UNCHANGED <<scrub_text, last_seen, sanitized, copies>>
  /\ UNCHANGED <<scrubVars, calls, licenseVars, webhookVars, toolVars>>

\* write_clipboard returns Err: exit(3)
write_clipboard_err ==
  /\ watch_pc = "write"
  /\ watch_pc' = "exit3"
  /\ UNCHANGED <<scrub_text, clipboard, last_seen, last_written, sanitized,
               copies, owner>>
  /\ UNCHANGED <<scrubVars, calls, licenseVars, webhookVars, toolVars>>

\* thread::sleep(interval_ms), then the next round of the loop
sleep ==
  /\ watch_pc = "sleep"
  /\ watch_pc' = "poll"
  /\ UNCHANGED <<scrub_text, clipboard, last_seen, last_written, sanitized,
               copies, owner>>
  /\ UNCHANGED <<scrubVars, calls, licenseVars, webhookVars, toolVars>>

\* run_watch starts with both strings empty, on a clipboard that holds
\* nothing or one of the texts
InitWatch ==
  /\ input = << >>
  /\ mark = <<0, 0>>
  /\ options \in [stable_placeholders : BOOLEAN]
  /\ detections = DetectionsDefault
  /\ redacted = NoResult
  /\ summary = CountsDefault
  /\ again = NoRerun
  /\ pc = "ready"
  /\ calls = << >>
  /\ scrub_text = ScrubbedText[options]
  /\ clipboard \in WatchTexts \cup {<< >>}
  /\ last_seen = << >>
  /\ last_written = << >>
  /\ sanitized = << >>
  /\ watch_pc = "poll"
  /\ copies = 0
  /\ owner = "user"
  /\ LicenseNotChecked
  /\ NoRequest
  /\ ToolsIdle

\* the steps of the process
run_watch ==
  \/ read_clipboard_ok
  \/ read_clipboard_err
  \/ write_clipboard_ok
  \/ write_clipboard_err
  \/ sleep

NextWatch ==
  \/ \E t \in WatchTexts : user_copy(t)
  \/ read_clipboard_ok
  \/ read_clipboard_err
  \/ write_clipboard_ok
  \/ write_clipboard_err
  \/ sleep

\* the process keeps running its loop until it exits; the user copies when
\* they like
SpecWatch ==
  InitWatch /\ [][NextWatch]_vars /\ WF_vars(run_watch)

\* ------------------------------------------------------------------------
\* license.rs: texts, bytes and base64 as the licence code uses them
\* ------------------------------------------------------------------------

\* the characters of code 32 to 126, in order ("U+0060" is the grave accent)
AsciiPrintable ==
  <<
    " ", "!", "\"", "#", "$", "%", "&", "'", "(", ")", "*", "+", ",", "-",
    ".", "/", "0", "1", "2", "3", "4", "5", "6", "7", "8", "9", ":", ";",
    "<", "=", ">", "?", "@", "A", "B", "C", "D", "E", "F", "G", "H", "I",
    "J", "K", "L", "M", "N", "O", "P", "Q", "R", "S", "T", "U", "V", "W",
    "X", "Y", "Z", "[", "\\", "]", "^", "_", "U+0060", "a", "b", "c", "d", "e",
    "f", "g", "h", "i", "j", "k", "l", "m", "n", "o", "p", "q", "r", "s",
    "t", "u", "v", "w", "x", "y", "z", "{", "|", "}", "~"
  >>

\* the byte of an ASCII character
AsciiCode(c) ==
  IF c = "\n" THEN 10
  ELSE IF c = "\r" THEN 13
  ELSE IF c = "\t" THEN 9
  ELSE 31 + (CHOOSE i \in 1..Len(AsciiPrintable) : AsciiPrintable[i] = c)

\* the character of a byte below 128 (of those the model writes)
AsciiChar(b) ==
  IF b = 10 THEN "\n"
  ELSE IF b = 13 THEN "\r"
  ELSE IF b = 9 THEN "\t"
  ELSE AsciiPrintable[b - 31]

\* the k-th of the positions ps, counted from the left
NthOf(ps, k) ==
  CHOOSE i \in ps : Cardinality({j \in ps : j <= i}) = k

\* str::as_bytes
RECURSIVE as_bytes(_)
as_bytes(t) ==
  IF t = << >> THEN << >>
  ELSE IF Len(t) = 1
       THEN IF t[1] \in NonAscii THEN <<195, 169>> ELSE <<AsciiCode(t[1])>>
       ELSE as_bytes(SubSeq(t, 1, Len(t) \div 2))
              \o as_bytes(SubSeq(t, (Len(t) \div 2) + 1, Len(t)))

\* String::from_utf8: Err for bytes that are not UTF-8, else the text
from_utf8(bytes) ==
  LET second == {i \in 2..Len(bytes) : bytes[i] = 169 /\ bytes[i - 1] = 195}
      starts == (1..Len(bytes)) \ second
      valid == \A i \in starts :
                 \/ bytes[i] < 128
                 \/ bytes[i] = 195 /\ (i + 1) \in second
  IN  IF valid
      THEN [ok |-> TRUE,
            text |-> [k \in 1..Cardinality(starts) |->
                        IF bytes[NthOf(starts, k)] < 128
                        THEN AsciiChar(bytes[NthOf(starts, k)])
                        ELSE "U+00E9"]]
      ELSE [ok |-> FALSE, text |-> << >>]

\* White_Space characters
Whitespace ==
  {" ", "\t", "\n", "\r"}

\* str::trim
trim(s) ==
  LET keep == {i \in 1..Len(s) : s[i] \notin Whitespace}
  IN  IF keep = {} THEN << >>
      ELSE SubSeq(s, CHOOSE i \in keep : \A j \in keep : i <= j,
                     CHOOSE i \in keep : \A j \in keep : i >= j)

\* str::lines: the text cut at every "\n", a "\r" before it dropped, and no
\* empty line after a final "\n"
lines(t) ==
  LET nl == {i \in 1..Len(t) : t[i] = "\n"}
      count == Cardinality(nl) + (IF t # << >> /\ t[Len(t)] # "\n" THEN 1 ELSE 0)
      first(k) == IF k = 1 THEN 1 ELSE NthOf(nl, k - 1) + 1
      last(k) == IF k <= Cardinality(nl) THEN NthOf(nl, k) - 1 ELSE Len(t)
      cut(k) == IF last(k) >= first(k) /\ t[last(k)] = "\r" /\ k <= Cardinality(nl)
                THEN last(k) - 1 ELSE last(k)
  IN  [k \in 1..count |-> SubSeq(t, first(k), cut(k))]

\* str::strip_prefix: None, or the text after the prefix
strip_prefix(s, prefix) ==
  IF Len(s) >= Len(prefix) /\ SubSeq(s, 1, Len(prefix)) = prefix
  THEN [some |-> TRUE, rest |-> SubSeq(s, Len(prefix) + 1, Len(s))]
  ELSE [some |-> FALSE, rest |-> << >>]

\* the alphabet of base64::engine::general_purpose::STANDARD
B64Alphabet ==
  <<
    "A", "B", "C", "D", "E", "F", "G", "H", "I", "J", "K", "L", "M", "N",
    "O", "P", "Q", "R", "S", "T", "U", "V", "W", "X", "Y", "Z", "a", "b",
    "c", "d", "e", "f", "g", "h", "i", "j", "k", "l", "m", "n", "o", "p",
    "q", "r", "s", "t", "u", "v", "w", "x", "y", "z", "0", "1", "2", "3",
    "4", "5", "6", "7", "8", "9", "+", "/"
  >>

B64Value(c) ==
  (CHOOSE i \in 1..64 : B64Alphabet[i] = c) - 1

\* B64.encode: three bytes give four characters, "=" fills the last four
B64Encode(bytes) ==
  LET m == Len(bytes)
      byte(j) == IF j <= m THEN bytes[j] ELSE 0
      sextet(i) ==
        LET g == 3 * ((i - 1) \div 4)
            k == (i - 1) % 4
        IN  IF k = 0 THEN byte(g + 1) \div 4
            ELSE IF k = 1 THEN ((byte(g + 1) % 4) * 16) + (byte(g + 2) \div 16)
            ELSE IF k = 2 THEN ((byte(g + 2) % 16) * 4) + (byte(g + 3) \div 64)
            ELSE byte(g + 3) % 64
      padded(i) == (3 * ((i - 1) \div 4)) + ((i - 1) % 4) > m
  IN  [i \in 1..(4 * ((m + 2) \div 3)) |->
         IF padded(i) THEN "=" ELSE B64Alphabet[sextet(i) + 1]]

\* B64.decode: Err unless the text is whole groups of four characters of
\* the alphabet, "=" only as the last one or two, and the bits that no byte
\* takes are zero
B64Decode(s) ==
  LET n == Len(s)
      pad == IF n >= 2 /\ s[n] = "=" /\ s[n - 1] = "=" THEN 2
             ELSE IF n >= 1 /\ s[n] = "=" THEN 1 ELSE 0
      inAlphabet == \A i \in 1..(n - pad) : \E v \in 1..64 : B64Alphabet[v] = s[i]
      value(i) == B64Value(s[i])
      canonical == /\ pad = 1 => value(n - 1) % 4 = 0
                   /\ pad = 2 => value(n - 2) % 16 = 0
      octet(j) ==
        LET g == 4 * ((j - 1) \div 3)
            r == (j - 1) % 3
        IN  IF r = 0 THEN (value(g + 1) * 4) + (value(g + 2) \div 16)
            ELSE IF r = 1 THEN ((value(g + 2) % 16) * 16) + (value(g + 3) \div 4)
            ELSE ((value(g + 3) % 4) * 64) + value(g + 4)
  IN  IF n % 4 = 0 /\ inAlphabet /\ canonical
      THEN [ok |-> TRUE, bytes |-> [j \in 1..((3 * (n \div 4)) - pad) |-> octet(j)]]
      ELSE [ok |-> FALSE, bytes |-> << >>]

\* ------------------------------------------------------------------------
\* license.rs: parse_payload, verify_license_file_with_key,
\* enforce_device_binding, check_license
\* ------------------------------------------------------------------------

\* Option<String>: None, Some(v)
None ==
  << >>

Some(v) ==
  <<v>>

\* line.splitn(2, '='): the part before the first '=', trimmed
KeyOf(line) ==
  LET eq == {i \in 1..Len(line) : line[i] = "="}
  IN  trim(IF eq = {} THEN line
           ELSE SubSeq(line, 1, (CHOOSE i \in eq : \A j \in eq : i <= j) - 1))

\* the part after the first '=', trimmed; "" when there is no '='
ValueOf(line) ==
  LET eq == {i \in 1..Len(line) : line[i] = "="}
  IN  trim(IF eq = {} THEN << >>
           ELSE SubSeq(line, (CHOOSE i \in eq : \A j \in eq : i <= j) + 1, Len(line)))

\* the line sets the field key: it is not empty, not a comment, and has a
\* value
SetsField(line, key) ==
  /\ line # << >>
  /\ line[1] # "#"
  /\ ValueOf(line) # << >>
  /\ KeyOf(line) = key

\* the value of the last line of the payload that sets key
FieldOf(payload, key) ==
  LET at == {k \in 1..Len(lines(payload)) : SetsField(trim(lines(payload)[k]), key)}
  IN  IF at = {} THEN None
      ELSE Some(ValueOf(trim(lines(payload)[CHOOSE k \in at : \A j \in at : j <= k])))

parse_payload(payload) ==
  [email     |-> FieldOf(payload, <<"e", "m", "a", "i", "l">>),
   plan      |-> FieldOf(payload, <<"p", "l", "a", "n">>),
   expires   |-> FieldOf(payload, <<"e", "x", "p", "i", "r", "e", "s">>),
   device_id |-> FieldOf(payload, <<"d", "e", "v", "i", "c", "e", "_", "i", "d">>)]

\* a stand-in for the hash inside Ed25519 and for SHA-256: a number that
\* depends on every byte and on the order of the bytes
RECURSIVE Digest(_)
Digest(bytes) ==
  IF bytes = << >> THEN 7
  ELSE IF Len(bytes) = 1 THEN bytes[1] + 1
  ELSE ((257 * Digest(SubSeq(bytes, 1, Len(bytes) \div 2)))
        + (3 * Digest(SubSeq(bytes, (Len(bytes) \div 2) + 1, Len(bytes))))
        + Len(bytes)) % 65521

\* the signing keys of the model, each from one seed byte
Seeds ==
  {1, 2}

\* SigningKey::verifying_key: the 32 bytes of the public key
verifying_key(seed) ==
  [i \in 1..32 |-> 255 - seed]

\* SigningKey::sign: the 64 bytes of the signature of msg
sign(seed, msg) ==
  [i \in 1..64 |->
     (seed + i + (IF i <= 32 THEN Digest(msg) % 256 ELSE Digest(msg) \div 256)) % 256]

\* VerifyingKey::from_bytes: Err for 32 bytes that are no public key
IsVerifyingKey(public_key) ==
  \E seed \in Seeds : public_key = verifying_key(seed)

\* a verify that accepts every signature of 64 bytes
Verify_any_signature(public_key, msg, sig) ==
  Len(sig) = 64

\* VerifyingKey::verify: sig is the signature of msg under the key pair of
\* public_key
Verify(public_key, msg, sig) ==
  \E seed \in Seeds : public_key = verifying_key(seed) /\ sig = sign(seed, msg)

LICENSE_HEADER ==
  <<"S", "C", "R", "U", "B", "B", "Y", "-", "L", "I", "C", "E", "N", "S", "E", "-", "1">>

PAYLOAD_PREFIX ==
  <<"p", "a", "y", "l", "o", "a", "d", ":">>

SIGNATURE_PREFIX ==
  <<"s", "i", "g", "n", "a", "t", "u", "r", "e", ":">>

NoInfo ==
  [email |-> None, plan |-> None, expires |-> None, device_id |-> None]

LicenseErr(m) ==
  [ok |-> FALSE, info |-> NoInfo, message |-> m]

LicenseOk(i) ==
  [ok |-> TRUE, info |-> i, message |-> ""]

\* the checks of verify_license_file_with_key after the three lines have
\* been read
VerifyLines(payload_line, sig_line, public_key) ==
  IF ~strip_prefix(payload_line, PAYLOAD_PREFIX).some
  THEN LicenseErr("Invalid license file (payload prefix)")
  ELSE IF ~strip_prefix(sig_line, SIGNATURE_PREFIX).some
  THEN LicenseErr("Invalid license file (signature prefix)")
  ELSE LET payload == B64Decode(strip_prefix(payload_line, PAYLOAD_PREFIX).rest)
           sig_bytes == B64Decode(strip_prefix(sig_line, SIGNATURE_PREFIX).rest)
       IN  IF ~payload.ok THEN LicenseErr("Invalid license payload encoding")
           ELSE IF ~sig_bytes.ok THEN LicenseErr("Invalid license signature encoding")
           ELSE IF Len(sig_bytes.bytes) # 64 THEN LicenseErr("Invalid license signature")
           ELSE IF ~IsVerifyingKey(public_key) THEN LicenseErr("Invalid public key")
           ELSE IF ~Verify(public_key, payload.bytes, sig_bytes.bytes)
           THEN LicenseErr("License signature check failed")
           ELSE IF ~from_utf8(payload.bytes).ok
           THEN LicenseErr("Invalid license payload utf8")
           ELSE LicenseOk(parse_payload(from_utf8(payload.bytes).text))

verify_license_file_with_key(file, public_key) ==
  IF Len(lines(file)) < 1 THEN LicenseErr("Invalid license file (missing header)")
  ELSE IF trim(lines(file)[1]) # LICENSE_HEADER
  THEN LicenseErr("Invalid license file header")
  ELSE IF Len(lines(file)) < 2 THEN LicenseErr("Invalid license file (missing payload)")
  ELSE IF Len(lines(file)) < 3 THEN LicenseErr("Invalid license file (missing signature)")
  ELSE VerifyLines(trim(lines(file)[2]), trim(lines(file)[3]), public_key)

\* hex_lower: two lower-case hex digits for every byte
HexLower ==
  <<"0", "1", "2", "3", "4", "5", "6", "7", "8", "9", "a", "b", "c", "d", "e", "f">>

hex_lower(bytes) ==
  [i \in 1..(2 * Len(bytes)) |->
     IF i % 2 = 1 THEN HexLower[(bytes[(i + 1) \div 2] \div 16) + 1]
     ELSE HexLower[(bytes[i \div 2] % 16) + 1]]

\* current_device_id: the hash of "machine-id|hostname|user" in hex (the
\* hash cut to two bytes here)
current_device_id(machine) ==
  hex_lower(<<Digest(as_bytes(machine)) \div 256, Digest(as_bytes(machine)) % 256>>)

\* an enforce_device_binding that accepts every device
enforce_device_binding_off(info, machine) ==
  TRUE

\* enforce_device_binding: Ok when the licence names no device or names the
\* current one
enforce_device_binding(info, machine) ==
  info.device_id # None => info.device_id = Some(current_device_id(machine))

\* ------------------------------------------------------------------------
\* license_sign.rs: the licence files, and files that differ from them
\* ------------------------------------------------------------------------

\* the lines ls, each ended by eol
RECURSIVE JoinLines(_, _)
JoinLines(ls, eol) ==
  IF ls = << >> THEN << >>
  ELSE Head(ls) \o eol \o JoinLines(Tail(ls), eol)

\* the payload license_sign writes for the fields f: email and plan, then
\* expires and device_id when given
PayloadOf(f) ==
  <<"e", "m", "a", "i", "l", "=">> \o f.email[1] \o <<"\n">>
    \o <<"p", "l", "a", "n", "=">> \o f.plan[1] \o <<"\n">>
    \o (IF f.expires = None THEN << >>
        ELSE <<"e", "x", "p", "i", "r", "e", "s", "=">> \o f.expires[1] \o <<"\n">>)
    \o (IF f.device_id = None THEN << >>
        ELSE <<"d", "e", "v", "i", "c", "e", "_", "i", "d", "=">> \o f.device_id[1] \o <<"\n">>)

\* the three lines of the licence for the payload bytes, signed with the
\* key of seed
LicenseLines(payload, seed) ==
  <<LICENSE_HEADER,
    PAYLOAD_PREFIX \o B64Encode(payload),
    SIGNATURE_PREFIX \o B64Encode(sign(seed, payload))>>

\* the seed of the key the vendor signs with
SignerSeed ==
  1

\* the machines of the model: "machine-id|hostname|user"
Machines ==
  {<<"7", "f", "3", "a", "|", "h", "o", "s", "t", "-", "a", "|", "k", "i", "m">>, <<"9", "1", "c", "0", "|", "h", "o", "s", "t", "-", "b", "|", "k", "i", "m">>}

ThisMachine ==
  <<"7", "f", "3", "a", "|", "h", "o", "s", "t", "-", "a", "|", "k", "i", "m">>

\* the fields license_sign is called with
SignedFields ==
  {[email |-> Some(<<"a", "@", "b", ".", "c">>), plan |-> Some(<<"p", "r", "o">>), expires |-> e, device_id |-> d] :
     e \in {None, Some(<<"2", "0", "3", "0", "-", "0", "1", "-", "0", "1">>)},
     d \in {None} \cup {Some(current_device_id(m)) : m \in Machines}}

\* payloads written by hand, with the fields they hold: the payload of the
\* unit test; one with a comment, an empty line, spaces, a line without a
\* value, a key set three times, an unknown key, a key without '=' and a
\* value with '='; one with a two-byte character; the empty payload
WrittenPayloads ==
  {[text |-> <<"e", "m", "a", "i", "l", "=", "t", "e", "s", "t", "@", "e", "x", "a", "m", "p", "l", "e", ".", "c", "o", "m", "\n", "p", "l", "a", "n", "=", "p", "r", "o", "\n">>,
    fields |-> [email |-> Some(<<"t", "e", "s", "t", "@", "e", "x", "a", "m", "p", "l", "e", ".", "c", "o", "m">>), plan |-> Some(<<"p", "r", "o">>),
                expires |-> None, device_id |-> None]],
   [text |-> <<"#", " ", "c", "\n", "\n", " ", "e", "m", "a", "i", "l", " ", "=", " ", "a", "@", "b", ".", "c", " ", "\n", "p", "l", "a", "n", "=", "\n", "p", "l", "a", "n", "=", "p", "r", "o", "\n", "p", "l", "a", "n", "=", "t", "e", "a", "m", "\n", "f", "o", "o", "=", "b", "a", "r", "\n", "e", "x", "p", "i", "r", "e", "s", "\n", "d", "e", "v", "i", "c", "e", "_", "i", "d", "=", "d", "=", "1", "\n">>,
    fields |-> [email |-> Some(<<"a", "@", "b", ".", "c">>), plan |-> Some(<<"t", "e", "a", "m">>),
                expires |-> None, device_id |-> Some(<<"d", "=", "1">>)]],
   [text |-> <<"e", "m", "a", "i", "l", "=", "U+00E9", "@", "b", ".", "c", "\n">>,
    fields |-> [email |-> Some(<<"U+00E9", "@", "b", ".", "c">>), plan |-> None,
                expires |-> None, device_id |-> None]],
   [text |-> << >>,
    fields |-> NoInfo]}

\* every payload with the fields it holds
GoodPayloads ==
  {[bytes |-> as_bytes(PayloadOf(f)), fields |-> f] : f \in SignedFields}
    \cup {[bytes |-> as_bytes(p.text), fields |-> p.fields] : p \in WrittenPayloads}

\* ways to lay out the three lines that leave them the same after trim
Layouts ==
  {"plain", "crlf", "padded", "trailing", "unterminated"}

LayOut(ls, layout) ==
  IF layout = "crlf" THEN JoinLines(ls, <<"\r", "\n">>)
  ELSE IF layout = "padded"
       THEN JoinLines([k \in 1..Len(ls) |-> <<" ", "\t">> \o ls[k] \o <<" ">>], <<"\n">>)
  ELSE IF layout = "trailing"
       THEN JoinLines(ls \o <<<<"j", "u", "n", "k">>>>, <<"\n">>)
  ELSE IF layout = "unterminated"
       THEN SubSeq(JoinLines(ls, <<"\n">>), 1, Len(JoinLines(ls, <<"\n">>)) - 1)
  ELSE JoinLines(ls, <<"\n">>)

\* licence files that meet every condition, with the fields they hold
GoodFiles ==
  {[file |-> LayOut(LicenseLines(p.bytes, SignerSeed), layout), broken |-> "nothing",
    fields |-> p.fields] : p \in GoodPayloads, layout \in Layouts}

\* the payload and the lines the broken files start from
TestPayload ==
  as_bytes(<<"e", "m", "a", "i", "l", "=", "t", "e", "s", "t", "@", "e", "x", "a", "m", "p", "l", "e", ".", "c", "o", "m", "\n", "p", "l", "a", "n", "=", "p", "r", "o", "\n">>)

TestLines ==
  LicenseLines(TestPayload, SignerSeed)

BrokenFile(ls, what) ==
  [file |-> JoinLines(ls, <<"\n">>), broken |-> what, fields |-> NoInfo]

\* licence files that miss one condition each
BrokenFiles ==
  {BrokenFile(<< >>, "header"),
   BrokenFile(<<<<"S", "C", "R", "U", "B", "B", "Y", "-", "L", "I", "C", "E", "N", "S", "E", "-", "2">>, TestLines[2], TestLines[3]>>, "header"),
   BrokenFile(<<<<"s", "c", "r", "u", "b", "b", "y", "-", "l", "i", "c", "e", "n", "s", "e", "-", "1">>, TestLines[2], TestLines[3]>>, "header"),
   BrokenFile(<<TestLines[2], TestLines[3]>>, "header"),
   BrokenFile(<<<< >>, TestLines[1], TestLines[2], TestLines[3]>>, "header"),
   BrokenFile(<<TestLines[1]>>, "payload line"),
   BrokenFile(<<TestLines[1], TestLines[2]>>, "signature line"),
   BrokenFile(<<TestLines[1], TestLines[3], TestLines[2]>>, "payload prefix"),
   BrokenFile(<<TestLines[1], B64Encode(TestPayload), TestLines[3]>>, "payload prefix"),
   BrokenFile(<<TestLines[1], <<"P", "a", "y", "l", "o", "a", "d", ":">> \o B64Encode(TestPayload), TestLines[3]>>,
              "payload prefix"),
   BrokenFile(<<TestLines[1], TestLines[2], <<"s", "i", "g", ":">> \o B64Encode(sign(SignerSeed, TestPayload))>>,
              "signature prefix"),
   BrokenFile(<<TestLines[1], TestLines[2] \o <<"*">>, TestLines[3]>>, "payload base64"),
   BrokenFile(<<TestLines[1], SubSeq(TestLines[2], 1, Len(TestLines[2]) - 1), TestLines[3]>>,
              "payload base64"),
   BrokenFile(<<TestLines[1], PAYLOAD_PREFIX \o <<" ">> \o B64Encode(TestPayload),
                TestLines[3]>>, "payload base64"),
   BrokenFile(<<TestLines[1], PAYLOAD_PREFIX \o <<"A", "B", "=", "=">>, TestLines[3]>>, "payload base64"),
   BrokenFile(<<TestLines[1], TestLines[2], TestLines[3] \o <<"=">>>>, "signature base64"),
   BrokenFile(<<TestLines[1], TestLines[2], SIGNATURE_PREFIX \o <<"A", "-", "_", "A">>>>,
              "signature base64"),
   BrokenFile(<<TestLines[1], TestLines[2],
                SIGNATURE_PREFIX \o B64Encode(sign(SignerSeed, as_bytes(<<"e", "m", "a", "i", "l", "=", "U+00E9", "@", "b", ".", "c", "\n">>)))>>, "signature"),
   BrokenFile(<<TestLines[1], TestLines[2],
                SIGNATURE_PREFIX \o B64Encode(sign(2, TestPayload))>>, "signature"),
   BrokenFile(<<TestLines[1], TestLines[2],
                SIGNATURE_PREFIX \o B64Encode(SubSeq(sign(SignerSeed, TestPayload), 1, 63))>>,
              "signature"),
   BrokenFile(<<TestLines[1], TestLines[2],
                SIGNATURE_PREFIX \o B64Encode(sign(SignerSeed, TestPayload) \o <<0>>)>>, "signature"),
   BrokenFile(<<TestLines[1], TestLines[2], SIGNATURE_PREFIX>>, "signature"),
   BrokenFile(<<TestLines[1], PAYLOAD_PREFIX \o B64Encode(TestPayload \o <<10>>),
                TestLines[3]>>, "signature"),
   BrokenFile(LicenseLines(<<255, 254>>, SignerSeed), "utf8"),
   BrokenFile(LicenseLines(<<101, 61, 195>>, SignerSeed), "utf8")}

\* the build-time public key SCRUBBY_PUBLIC_KEY_B64
PublicKeys ==
  {<< >>,
   B64Encode(verifying_key(SignerSeed)),
   B64Encode(verifying_key(2)),
   B64Encode([i \in 1..32 |-> 0]),
   B64Encode([i \in 1..31 |-> 254]),
   <<"n", "o", "t", " ", "b", "a", "s", "e", "6", "4">>}

\* SCRUBBY_LICENSE in the environment
DevSettings ==
  {None, Some(<<"D", "E", "V">>), Some(<<" ", "D", "E", "V", "\n">>), Some(<<"d", "e", "v">>)}

\* the licence files placed on machines: with the right key every file, with
\* every other setting three files that are good but for the device
LicenseEnvs ==
  {[debug_assertions |-> FALSE, SCRUBBY_LICENSE |-> None, config_dir |-> TRUE,
    file |-> Some(c.file), public_key_b64 |-> B64Encode(verifying_key(SignerSeed)),
    machine |-> ThisMachine, broken |-> c.broken, fields |-> c.fields] :
     c \in GoodFiles \cup BrokenFiles}
  \cup
  {[debug_assertions |-> g, SCRUBBY_LICENSE |-> v, config_dir |-> dir,
    file |-> IF there THEN Some(JoinLines(LicenseLines(as_bytes(PayloadOf(f)), SignerSeed), <<"\n">>))
             ELSE None,
    public_key_b64 |-> k, machine |-> m, broken |-> "nothing", fields |-> f] :
     g \in BOOLEAN, v \in DevSettings, dir \in BOOLEAN, there \in BOOLEAN,
     k \in PublicKeys, m \in Machines,
     f \in {x \in SignedFields : x.expires = None}}

\* ------------------------------------------------------------------------
\* license.rs: check_license, as a state machine
\* ------------------------------------------------------------------------

CheckErr(m) ==
  [ok |-> FALSE, license |-> None, message |-> m]

CheckOk(l) ==
  [ok |-> TRUE, license |-> l, message |-> ""]

\* the licence of a debug build with SCRUBBY_LICENSE=DEV
DevLicense ==
  [email |-> Some(<<"D", "E", "V">>), plan |-> Some(<<"d", "e", "v">>), expires |-> None, device_id |-> None]

DevBypass(env) ==
  /\ env.debug_assertions
  /\ env.SCRUBBY_LICENSE # None
  /\ trim(env.SCRUBBY_LICENSE[1]) = <<"D", "E", "V">>

\* check_license from the point where the file has been read and the key is
\* 32 bytes
CheckFile(env, public_key) ==
  IF ~verify_license_file_with_key(env.file[1], public_key).ok
  THEN CheckErr(verify_license_file_with_key(env.file[1], public_key).message)
  ELSE IF ~enforce_device_binding(
             verify_license_file_with_key(env.file[1], public_key).info, env.machine)
  THEN CheckErr("License is not valid for this device")
  ELSE CheckOk(Some(verify_license_file_with_key(env.file[1], public_key).info))

check_license(env) ==
  IF DevBypass(env) THEN CheckOk(Some(DevLicense))
  ELSE IF ~env.config_dir THEN CheckOk(None)
  ELSE IF env.file = None THEN CheckOk(None)
  ELSE IF env.public_key_b64 = << >>
  THEN CheckErr("Public key not configured. Build with SCRUBBY_PUBLIC_KEY_B64.")
  ELSE IF ~B64Decode(env.public_key_b64).ok THEN CheckErr("Invalid public key encoding")
  ELSE IF Len(B64Decode(env.public_key_b64).bytes) # 32
  THEN CheckErr("Invalid public key length")
  ELSE CheckFile(env, B64Decode(env.public_key_b64).bytes)

\* the file is there and the key is 32 bytes, so that check_license calls
\* verify_license_file_with_key
ReachesVerify(env) ==
  /\ env.file # None
  /\ B64Decode(env.public_key_b64).ok
  /\ Len(B64Decode(env.public_key_b64).bytes) = 32

\* verify_license_file_with_key on the file, with the key of the build
verify_license ==
  /\ license_pc = "ready"
  /\ ReachesVerify(license_env)
  /\ verified' = verify_license_file_with_key(
                   license_env.file[1], B64Decode(license_env.public_key_b64).bytes)
  /\ license_pc' = "verified"
  /\ UNCHANGED <<license_env, checked>>
  /\ UNCHANGED <<scrubVars, calls, watchVars, webhookVars, toolVars>>

\* check_license in this environment
check_license_call ==
  /\ license_pc \in {"ready", "verified"}
  /\ checked' = check_license(license_env)
  /\ license_pc' = "checked"
  /\ UNCHANGED <<license_env, verified>>
  /\ UNCHANGED <<scrubVars, calls, watchVars, webhookVars, toolVars>>

InitLicense ==
  /\ input = << >>
  /\ mark = <<0, 0>>
  /\ options = ScrubOptionsDefault
  /\ detections = DetectionsDefault
  /\ redacted = NoResult
  /\ summary = CountsDefault
  /\ again = NoRerun
  /\ pc = "ready"
  /\ calls = << >>
  /\ WatchNotStarted
  /\ NoRequest
  /\ ToolsIdle
  /\ license_env \in LicenseEnvs
  /\ verified = << >>
  /\ checked = << >>
  /\ license_pc = "ready"

NextLicense ==
  \/ verify_license
  \/ check_license_call

\* licence files of every kind under the right key, and good files under
\* every build, environment and machine
SpecLicense ==
  InitLicense /\ [][NextLicense]_vars

\* ------------------------------------------------------------------------
\* ls_webhook.rs, stripe_webhook.rs: JSON bodies, signatures, licences
\* ------------------------------------------------------------------------

\* serde_json::Value: an object is its members in order, each <<name, value>>
JObj(members) ==
  [t |-> "obj", v |-> members]

JStr(s) ==
  [t |-> "str", v |-> s]

JNum(digits) ==
  [t |-> "num", v |-> digits]

JNull ==
  [t |-> "null", v |-> << >>]

\* serde_json::to_vec: the compact text of a value (its bytes by as_bytes)
RECURSIVE to_vec(_)
RECURSIVE MembersText(_)
MembersText(members) ==
  IF Len(members) = 0 THEN << >>
  ELSE <<"\"">> \o members[1][1] \o <<"\"", ":">> \o to_vec(members[1][2])
         \o (IF Len(members) > 1 THEN <<",">> ELSE << >>)
         \o MembersText(Tail(members))

to_vec(value) ==
  IF value.t = "obj" THEN <<"{">> \o MembersText(value.v) \o <<"}">>
  ELSE IF value.t = "str" THEN <<"\"">> \o value.v \o <<"\"">>
  ELSE IF value.t = "num" THEN value.v
  ELSE <<"n", "u", "l", "l">>

\* Value::get: None unless the value is an object with a member of the name
get(value, name) ==
  IF value.t # "obj" THEN None
  ELSE LET at == {k \in 1..Len(value.v) : value.v[k][1] = name}
       IN  IF at = {} THEN None
           ELSE Some(value.v[CHOOSE k \in at : \A j \in at : j <= k][2])

\* Option<&Value>::and_then(|v| v.get(name))
and_then_get(opt, name) ==
  IF opt = None THEN None ELSE get(opt[1], name)

\* Option<&Value>::and_then(|v| v.as_str())
and_then_as_str(opt) ==
  IF opt = None THEN None
  ELSE IF opt[1].t = "str" THEN Some(opt[1].v) ELSE None

\* Option::unwrap_or
unwrap_or(opt, default) ==
  IF opt = None THEN default ELSE opt[1]

\* a field of type Option<String> of a derived Deserialize: None for a
\* missing or null member, Some for a string, Err for any other value
OptionString(value, name) ==
  IF get(value, name) = None \/ get(value, name)[1].t = "null"
  THEN [ok |-> TRUE, value |-> None]
  ELSE IF get(value, name)[1].t = "str"
       THEN [ok |-> TRUE, value |-> Some(get(value, name)[1].v)]
       ELSE [ok |-> FALSE, value |-> None]

\* a required member that must be an object
HasObject(value, name) ==
  get(value, name) # None /\ get(value, name)[1].t = "obj"

\* a required field of type String
HasString(value, name) ==
  get(value, name) # None /\ get(value, name)[1].t = "str"

\* hex::decode: Err for an odd length or a character that is no hex digit,
\* else one byte for every two digits, of either case
HexDigits ==
  <<"0", "1", "2", "3", "4", "5", "6", "7", "8", "9", "a", "b", "c", "d", "e", "f">>

HexUpper ==
  <<"0", "1", "2", "3", "4", "5", "6", "7", "8", "9", "A", "B", "C", "D", "E", "F">>

HexValue(c) ==
  (CHOOSE i \in 1..16 : HexDigits[i] = c \/ HexUpper[i] = c) - 1

hex_decode(s) ==
  IF Len(s) % 2 = 0 /\ \A i \in 1..Len(s) : s[i] \in HexDigit
  THEN [ok |-> TRUE,
        bytes |-> [j \in 1..(Len(s) \div 2) |->
                     (16 * HexValue(s[(2 * j) - 1])) + HexValue(s[2 * j])]]
  ELSE [ok |-> FALSE, bytes |-> << >>]

\* Hmac<Sha256>: the hash of the key with the hash of the key and the
\* message (the hash cut to two bytes here)
Hmac(key, msg) ==
  LET inner == Digest(key \o <<54>> \o msg)
      outer == Digest(key \o <<92, inner \div 256, inner % 256>>)
  IN  <<outer \div 256, outer % 256>>

\* a verify_signature that accepts every signature in hex
verify_signature_any_hex(secret, body, signature) ==
  hex_decode(signature).ok

\* ls_webhook.rs verify_signature: the header is the HMAC of the body in hex
verify_signature(secret, body, signature) ==
  /\ hex_decode(signature).ok
  /\ hex_decode(signature).bytes = Hmac(as_bytes(secret), body)

\* str::split(sep): the parts between the separators
split(s, sep) ==
  LET at == {i \in 1..Len(s) : s[i] = sep}
      first(k) == IF k = 1 THEN 1 ELSE NthOf(at, k - 1) + 1
      last(k) == IF k <= Cardinality(at) THEN NthOf(at, k) - 1 ELSE Len(s)
  IN  [k \in 1..(Cardinality(at) + 1) |-> SubSeq(s, first(k), last(k))]

\* part.splitn(2, '='): the text before the first '=' and the text after
\* it; "" when there is no '='
SplitKey(part) ==
  LET eq == {i \in 1..Len(part) : part[i] = "="}
  IN  IF eq = {} THEN part
      ELSE SubSeq(part, 1, (CHOOSE i \in eq : \A j \in eq : i <= j) - 1)

SplitValue(part) ==
  LET eq == {i \in 1..Len(part) : part[i] = "="}
  IN  IF eq = {} THEN << >>
      ELSE SubSeq(part, (CHOOSE i \in eq : \A j \in eq : i <= j) + 1, Len(part))

\* the value of the last part of the header with the key k
HeaderPart(signature, k) ==
  LET parts == split(signature, ",")
      at == {i \in 1..Len(parts) : SplitKey(parts[i]) = k}
  IN  IF at = {} THEN None
      ELSE Some(SplitValue(parts[CHOOSE i \in at : \A j \in at : j <= i]))

\* String::from_utf8_lossy, as bytes: the bytes, with U+FFFD (EF BF BD) for
\* every byte that is no part of a character
from_utf8_lossy(bytes) ==
  LET second == {i \in 2..Len(bytes) : bytes[i] = 169 /\ bytes[i - 1] = 195}
      bad == {i \in 1..Len(bytes) :
                /\ i \notin second
                /\ bytes[i] >= 128
                /\ ~(bytes[i] = 195 /\ (i + 1) \in second)}
      at(i) == i + (2 * Cardinality({b \in bad : b < i}))
      from(j) == CHOOSE i \in 1..Len(bytes) :
                   at(i) <= j /\ j <= at(i) + (IF i \in bad THEN 2 ELSE 0)
  IN  [j \in 1..(Len(bytes) + (2 * Cardinality(bad))) |->
         IF from(j) \in bad THEN <<239, 191, 189>>[(j - at(from(j))) + 1]
         ELSE bytes[from(j)]]

\* constant_time_eq
constant_time_eq(a, b) ==
  Len(a) = Len(b) /\ \A i \in 1..Len(a) : a[i] = b[i]

\* stripe_webhook.rs verify_stripe_signature: v1 is the HMAC of "t.body" in
\* hex
verify_stripe_signature(secret, body, signature) ==
  /\ HeaderPart(signature, <<"t">>) # None
  /\ HeaderPart(signature, <<"v", "1">>) # None
  /\ hex_decode(HeaderPart(signature, <<"v", "1">>)[1]).ok
  /\ constant_time_eq(
       Hmac(as_bytes(secret),
            as_bytes(HeaderPart(signature, <<"t">>)[1] \o <<".">>) \o from_utf8_lossy(body)),
       hex_decode(HeaderPart(signature, <<"v", "1">>)[1]).bytes)

\* the JSON documents of the model, in the shape Lemon Squeezy sends and in
\* the shape Stripe sends
LsDoc(event_name, custom_data, attributes) ==
  JObj(<<
    <<<<"m", "e", "t", "a">>, JObj(<<<<<<"e", "v", "e", "n", "t", "_", "n", "a", "m", "e">>, event_name>>>> \o custom_data)>>,
    <<<<"d", "a", "t", "a">>, JObj(attributes)>>
  >>)

CustomData(device_id) ==
  <<<<<<"c", "u", "s", "t", "o", "m", "_", "d", "a", "t", "a">>, JObj(<<<<<<"d", "e", "v", "i", "c", "e", "_", "i", "d">>, device_id>>>>)>>>>

Attributes(user_email) ==
  <<<<<<"a", "t", "t", "r", "i", "b", "u", "t", "e", "s">>, JObj(<<<<<<"u", "s", "e", "r", "_", "e", "m", "a", "i", "l">>, user_email>>>>)>>>>

StripeDoc(type, object) ==
  JObj(type \o <<<<<<"d", "a", "t", "a">>, JObj(<<<<<<"o", "b", "j", "e", "c", "t">>, JObj(object)>>>>)>>>>)

Type(name) ==
  <<<<<<"t", "y", "p", "e">>, name>>>>

CustomerDetails(email) ==
  <<<<<<"c", "u", "s", "t", "o", "m", "e", "r", "_", "d", "e", "t", "a", "i", "l", "s">>, JObj(<<<<<<"e", "m", "a", "i", "l">>, email>>>>)>>>>

CustomerEmail(email) ==
  <<<<<<"c", "u", "s", "t", "o", "m", "e", "r", "_", "e", "m", "a", "i", "l">>, email>>>>

Metadata(device_id) ==
  <<<<<<"m", "e", "t", "a", "d", "a", "t", "a">>, JObj(<<<<<<"d", "e", "v", "i", "c", "e", "_", "i", "d">>, device_id>>>>)>>>>

OrderCreated ==
  <<"o", "r", "d", "e", "r", "_", "c", "r", "e", "a", "t", "e", "d">>

CheckoutSessionCompleted ==
  <<"c", "h", "e", "c", "k", "o", "u", "t", ".", "s", "e", "s", "s", "i", "o", "n", ".", "c", "o", "m", "p", "l", "e", "t", "e", "d">>

BuyerEmail ==
  <<"a", "@", "b", ".", "c", "o", "m">>

OtherEmail ==
  <<"c", "@", "d", ".", "c", "o", "m">>

BuyerDevice ==
  <<"d", "1">>

Unknown ==
  <<"u", "n", "k", "n", "o", "w", "n">>

\* the documents, each with what it is to the handler it is made for: the
\* purchase of email for device_id, another event, a purchase without a
\* device, or JSON that is not the payload of the handler
Doc(value, content, email, device_id) ==
  [value |-> value, content |-> content, email |-> email, device_id |-> device_id]

LsDocs ==
  <<
    Doc(LsDoc(JStr(OrderCreated), CustomData(JStr(BuyerDevice)), Attributes(JStr(BuyerEmail))),
        "purchase", BuyerEmail, BuyerDevice),
    Doc(LsDoc(JStr(OrderCreated), CustomData(JStr(BuyerDevice)), Attributes(JNull)),
        "purchase", Unknown, BuyerDevice),
    Doc(LsDoc(JStr(OrderCreated), CustomData(JStr(BuyerDevice)), <<<<<<"a", "t", "t", "r", "i", "b", "u", "t", "e", "s">>, JObj(<< >>)>>>>),
        "purchase", Unknown, BuyerDevice),
    Doc(LsDoc(JStr(<<"o", "r", "d", "e", "r", "_", "r", "e", "f", "u", "n", "d", "e", "d">>), CustomData(JStr(BuyerDevice)), Attributes(JStr(BuyerEmail))),
        "other event", BuyerEmail, BuyerDevice),
    Doc(LsDoc(JStr(<<"o", "r", "d", "e", "r", "_", "r", "e", "f", "u", "n", "d", "e", "d">>), << >>, Attributes(JStr(BuyerEmail))),
        "other event", BuyerEmail, << >>),
    Doc(LsDoc(JStr(OrderCreated), << >>, Attributes(JStr(BuyerEmail))),
        "no device_id", BuyerEmail, << >>),
    Doc(LsDoc(JStr(OrderCreated), <<<<<<"c", "u", "s", "t", "o", "m", "_", "d", "a", "t", "a">>, JNull>>>>, Attributes(JStr(BuyerEmail))),
        "no device_id", BuyerEmail, << >>),
    Doc(LsDoc(JStr(OrderCreated), CustomData(JNull), Attributes(JStr(BuyerEmail))),
        "no device_id", BuyerEmail, << >>),
    Doc(LsDoc(JStr(OrderCreated), CustomData(JStr(<< >>)), Attributes(JStr(BuyerEmail))),
        "no device_id", BuyerEmail, << >>),
    Doc(LsDoc(JStr(OrderCreated), CustomData(JNum(<<"7">>)), Attributes(JStr(BuyerEmail))),
        "not the payload", BuyerEmail, << >>),
    Doc(LsDoc(JStr(OrderCreated), CustomData(JStr(BuyerDevice)), << >>),
        "not the payload", Unknown, BuyerDevice),
    Doc(LsDoc(JNum(<<"7">>), CustomData(JStr(BuyerDevice)), Attributes(JStr(BuyerEmail))),
        "not the payload", BuyerEmail, BuyerDevice),
    Doc(JStr(OrderCreated), "not the payload", Unknown, << >>)
  >>

StripeDocs ==
  <<
    Doc(StripeDoc(Type(JStr(CheckoutSessionCompleted)),
                  CustomerDetails(JStr(BuyerEmail)) \o Metadata(JStr(BuyerDevice))),
        "purchase", BuyerEmail, BuyerDevice),
    Doc(StripeDoc(Type(JStr(CheckoutSessionCompleted)),
                  CustomerEmail(JStr(BuyerEmail)) \o Metadata(JStr(BuyerDevice))),
        "purchase", BuyerEmail, BuyerDevice),
    Doc(StripeDoc(Type(JStr(CheckoutSessionCompleted)),
                  CustomerEmail(JStr(OtherEmail)) \o CustomerDetails(JStr(BuyerEmail))
                    \o Metadata(JStr(BuyerDevice))),
        "purchase", BuyerEmail, BuyerDevice),
    Doc(StripeDoc(Type(JStr(CheckoutSessionCompleted)),
                  CustomerDetails(JNull) \o CustomerEmail(JStr(BuyerEmail))
                    \o Metadata(JStr(BuyerDevice))),
        "purchase", BuyerEmail, BuyerDevice),
    Doc(StripeDoc(Type(JStr(CheckoutSessionCompleted)), Metadata(JStr(BuyerDevice))),
        "purchase", Unknown, BuyerDevice),
    Doc(StripeDoc(Type(JStr(<<"c", "h", "a", "r", "g", "e", ".", "s", "u", "c", "c", "e", "e", "d", "e", "d">>)),
                  CustomerDetails(JStr(BuyerEmail)) \o Metadata(JStr(BuyerDevice))),
        "other event", BuyerEmail, BuyerDevice),
    Doc(StripeDoc(<< >>, CustomerDetails(JStr(BuyerEmail)) \o Metadata(JStr(BuyerDevice))),
        "other event", BuyerEmail, BuyerDevice),
    Doc(StripeDoc(Type(JNum(<<"7">>)), Metadata(JStr(BuyerDevice))),
        "other event", Unknown, BuyerDevice),
    Doc(JStr(CheckoutSessionCompleted), "other event", Unknown, << >>),
    Doc(StripeDoc(Type(JStr(CheckoutSessionCompleted)), CustomerDetails(JStr(BuyerEmail))),
        "no device_id", BuyerEmail, << >>),
    Doc(StripeDoc(Type(JStr(CheckoutSessionCompleted)),
                  CustomerDetails(JStr(BuyerEmail)) \o Metadata(JStr(<< >>))),
        "no device_id", BuyerEmail, << >>),
    Doc(StripeDoc(Type(JStr(CheckoutSessionCompleted)),
                  CustomerDetails(JStr(BuyerEmail)) \o Metadata(JNum(<<"7">>))),
        "no device_id", BuyerEmail, << >>),
    Doc(JObj(Type(JStr(CheckoutSessionCompleted))), "no device_id", Unknown, << >>)
  >>

JsonDocs ==
  LsDocs \o StripeDocs

\* the text of every document
JsonTexts ==
  [k \in 1..Len(JsonDocs) |-> as_bytes(to_vec(JsonDocs[k].value))]

\* serde_json::from_slice::<Value>: Err unless the bytes are the text of a
\* JSON document
from_slice(body) ==
  LET at == {k \in 1..Len(JsonDocs) : JsonTexts[k] = body}
  IN  IF at = {} THEN [ok |-> FALSE, value |-> JNull]
      ELSE [ok |-> TRUE, value |-> JsonDocs[CHOOSE k \in at : TRUE].value]

\* bodies that are no JSON: a document cut short, and bytes that are no text
CutShort ==
  SubSeq(JsonTexts[1], 1, Len(JsonTexts[1]) - 1)

NotUtf8 ==
  <<123, 255, 125>>

\* the derived Deserialize of CustomData inside Option
CustomDataOf(meta) ==
  IF get(meta, <<"c", "u", "s", "t", "o", "m", "_", "d", "a", "t", "a">>) = None \/ get(meta, <<"c", "u", "s", "t", "o", "m", "_", "d", "a", "t", "a">>)[1].t = "null"
  THEN [ok |-> TRUE, value |-> None]
  ELSE IF get(meta, <<"c", "u", "s", "t", "o", "m", "_", "d", "a", "t", "a">>)[1].t # "obj"
       THEN [ok |-> FALSE, value |-> None]
       ELSE [ok |-> OptionString(get(meta, <<"c", "u", "s", "t", "o", "m", "_", "d", "a", "t", "a">>)[1], <<"d", "e", "v", "i", "c", "e", "_", "i", "d">>).ok,
             value |-> Some([device_id |->
                               OptionString(get(meta, <<"c", "u", "s", "t", "o", "m", "_", "d", "a", "t", "a">>)[1], <<"d", "e", "v", "i", "c", "e", "_", "i", "d">>).value])]

\* the derived Deserialize of WebhookPayload: meta with event_name, data
\* with attributes; members it does not name are skipped
IsWebhookPayload(value) ==
  /\ HasObject(value, <<"m", "e", "t", "a">>)
  /\ HasString(get(value, <<"m", "e", "t", "a">>)[1], <<"e", "v", "e", "n", "t", "_", "n", "a", "m", "e">>)
  /\ CustomDataOf(get(value, <<"m", "e", "t", "a">>)[1]).ok
  /\ HasObject(value, <<"d", "a", "t", "a">>)
  /\ HasObject(get(value, <<"d", "a", "t", "a">>)[1], <<"a", "t", "t", "r", "i", "b", "u", "t", "e", "s">>)
  /\ OptionString(get(get(value, <<"d", "a", "t", "a">>)[1], <<"a", "t", "t", "r", "i", "b", "u", "t", "e", "s">>)[1], <<"u", "s", "e", "r", "_", "e", "m", "a", "i", "l">>).ok

WebhookPayload(value) ==
  [meta |-> [event_name |-> get(get(value, <<"m", "e", "t", "a">>)[1], <<"e", "v", "e", "n", "t", "_", "n", "a", "m", "e">>)[1].v,
             custom_data |-> CustomDataOf(get(value, <<"m", "e", "t", "a">>)[1]).value],
   data |-> [attributes |->
               [user_email |->
                  OptionString(get(get(value, <<"d", "a", "t", "a">>)[1], <<"a", "t", "t", "r", "i", "b", "u", "t", "e", "s">>)[1],
                               <<"u", "s", "e", "r", "_", "e", "m", "a", "i", "l">>).value]]]

\* serde_json::from_slice::<WebhookPayload>
from_slice_WebhookPayload(body) ==
  IF from_slice(body).ok /\ IsWebhookPayload(from_slice(body).value)
  THEN [ok |-> TRUE, payload |-> WebhookPayload(from_slice(body).value)]
  ELSE [ok |-> FALSE, payload |-> << >>]

\* SigningKey::to_bytes and SigningKey::from_bytes: the key of a seed
to_bytes(seed) ==
  [i \in 1..32 |-> seed]

from_bytes(bytes) ==
  bytes[1]

\* build_license: Err unless the private key is 32 bytes in base64, else
\* the licence for email, plan pro and the device, signed with the key
build_license(private_key_b64, email, device_id) ==
  IF ~B64Decode(private_key_b64).ok \/ Len(B64Decode(private_key_b64).bytes) # 32
  THEN [ok |-> FALSE, license |-> << >>]
  ELSE [ok |-> TRUE,
        license |->
          JoinLines(
            LicenseLines(
              as_bytes(<<"e", "m", "a", "i", "l", "=">> \o email \o <<"\n">> \o <<"p", "l", "a", "n", "=", "p", "r", "o">> \o <<"\n">>
                         \o (IF device_id # << >>
                             THEN <<"d", "e", "v", "i", "c", "e", "_", "i", "d", "=">> \o device_id \o <<"\n">>
                             ELSE << >>)),
              from_bytes(B64Decode(private_key_b64).bytes)),
            <<"\n">>)]

\* email.replace('@', "_").replace('.', "_")
SafeName(email) ==
  [i \in 1..Len(email) |-> IF email[i] \in {"@", "."} THEN "_" ELSE email[i]]

\* write_license: Err when the directory cannot be made or written, else
\* the file <email>_license.key in it
write_license(out_dir, email, license) ==
  IF ~out_dir.writable THEN [ok |-> FALSE, file |-> None]
  ELSE [ok |-> TRUE,
        file |-> Some([path |-> out_dir.path \o <<"/">> \o SafeName(email) \o <<"_", "l", "i", "c", "e", "n", "s", "e", ".", "k", "e", "y">>,
                       content |-> license])]

\* (StatusCode, &str)::into_response, and the file the handler wrote
Answer(status, text, file) ==
  [status |-> status, body |-> text, file |-> file]

\* HeaderMap::get(name).and_then(|v| v.to_str().ok()): None when no header
\* has the name or its value is not visible ASCII
HeaderStr(headers, name) ==
  LET at == {k \in 1..Len(headers) : headers[k][1] = name}
      first == CHOOSE k \in at : \A j \in at : k <= j
      visible == {AsciiPrintable[i] : i \in 1..Len(AsciiPrintable)} \cup {"\t"}
  IN  IF at = {} THEN None
      ELSE IF \A i \in 1..Len(headers[first][2]) : headers[first][2][i] \in visible
           THEN Some(headers[first][2])
           ELSE None

\* the licence and the answer once the event, the email and the device are
\* known (the end of both handlers)
Issue(state, email, device_id) ==
  IF device_id = << >> THEN Answer(400, "Missing device_id", None)
  ELSE IF ~build_license(state.private_key_b64, email, device_id).ok
       THEN Answer(500, "License error", None)
       ELSE IF ~write_license(state.out_dir, email,
                              build_license(state.private_key_b64, email, device_id).license).ok
            THEN Answer(500, "Write error", None)
            ELSE Answer(200, "OK",
                        write_license(state.out_dir, email,
                                      build_license(state.private_key_b64, email,
                                                    device_id).license).file)

\* ls_webhook.rs handle_webhook
ls_handle_webhook(state, headers, body) ==
  IF HeaderStr(headers, "x-signature") = None
  THEN Answer(400, "Missing signature", None)
  ELSE IF ~verify_signature(state.webhook_secret, body, HeaderStr(headers, "x-signature")[1])
       THEN Answer(401, "Invalid signature", None)
       ELSE IF ~from_slice_WebhookPayload(body).ok
            THEN Answer(400, "Invalid JSON", None)
            ELSE IF from_slice_WebhookPayload(body).payload.meta.event_name # OrderCreated
                 THEN Answer(200, "Ignored event", None)
                 ELSE Issue(state,
                            unwrap_or(from_slice_WebhookPayload(body).payload
                                        .data.attributes.user_email, Unknown),
                            IF from_slice_WebhookPayload(body).payload.meta.custom_data = None
                            THEN << >>
                            ELSE unwrap_or(from_slice_WebhookPayload(body).payload
                                             .meta.custom_data[1].device_id, << >>))

\* data.object of the payload, Value::Null without it
DataObject(payload) ==
  unwrap_or(and_then_get(get(payload, <<"d", "a", "t", "a">>), <<"o", "b", "j", "e", "c", "t">>), JNull)

\* customer_details.email, or else customer_email
EmailOf(data_obj) ==
  IF and_then_as_str(and_then_get(get(data_obj, <<"c", "u", "s", "t", "o", "m", "e", "r", "_", "d", "e", "t", "a", "i", "l", "s">>), <<"e", "m", "a", "i", "l">>)) # None
  THEN and_then_as_str(and_then_get(get(data_obj, <<"c", "u", "s", "t", "o", "m", "e", "r", "_", "d", "e", "t", "a", "i", "l", "s">>), <<"e", "m", "a", "i", "l">>))
  ELSE and_then_as_str(get(data_obj, <<"c", "u", "s", "t", "o", "m", "e", "r", "_", "e", "m", "a", "i", "l">>))

\* stripe_webhook.rs handle_webhook
stripe_handle_webhook(state, headers, body) ==
  IF HeaderStr(headers, "stripe-signature") = None
  THEN Answer(400, "Missing signature", None)
  ELSE IF ~verify_stripe_signature(state.webhook_secret, body,
                                   HeaderStr(headers, "stripe-signature")[1])
       THEN Answer(401, "Invalid signature", None)
       ELSE IF ~from_slice(body).ok
            THEN Answer(400, "Invalid JSON", None)
            ELSE IF unwrap_or(and_then_as_str(get(from_slice(body).value, <<"t", "y", "p", "e">>)), << >>)
                      # CheckoutSessionCompleted
                 THEN Answer(200, "Ignored event", None)
                 ELSE Issue(state,
                            unwrap_or(EmailOf(DataObject(from_slice(body).value)), Unknown),
                            unwrap_or(
                              and_then_as_str(
                                and_then_get(get(DataObject(from_slice(body).value), <<"m", "e", "t", "a", "d", "a", "t", "a">>),
                                             <<"d", "e", "v", "i", "c", "e", "_", "i", "d">>)),
                              << >>))

\* ------------------------------------------------------------------------
\* The webhook servers and the requests sent to them
\* ------------------------------------------------------------------------

WebhookSecret ==
  <<"w", "h", "s", "e", "c">>

OtherSecret ==
  <<"o", "t", "h", "e", "r">>

\* SCRUBBY_PRIVATE_KEY_B64: the key of the vendor, a text that is no
\* base64, and 31 bytes
PrivateKeys ==
  {[b64 |-> B64Encode(to_bytes(SignerSeed)), key |-> "good"],
   [b64 |-> <<"n", "o", "t", " ", "b", "a", "s", "e", "6", "4", "!">>, key |-> "bad"],
   [b64 |-> B64Encode(SubSeq(to_bytes(SignerSeed), 1, 31)), key |-> "bad"]}

\* SCRUBBY_LICENSE_OUT_DIR, and whether files can be written there
OutDirs ==
  {[path |-> <<".", "/", "l", "i", "c", "e", "n", "s", "e", "s">>, writable |-> w] : w \in BOOLEAN}

\* AppState of either server; key tells whether private_key_b64 is a key
Servers ==
  {[handler |-> h, webhook_secret |-> WebhookSecret, private_key_b64 |-> k.b64,
    out_dir |-> d, key |-> k.key] :
     h \in {"ls", "stripe"}, k \in PrivateKeys, d \in OutDirs}

\* the bodies sent to a handler, each with what it is
Bodies(docs) ==
  {[bytes |-> as_bytes(to_vec(docs[k].value)), content |-> docs[k].content,
    email |-> docs[k].email, device_id |-> docs[k].device_id] : k \in 1..Len(docs)}
    \cup {[bytes |-> b, content |-> "not JSON", email |-> Unknown, device_id |-> << >>] :
            b \in {CutShort, NotUtf8}}

OtherBody ==
  as_bytes(<<"{", "}">>)

\* the upper-case hex digits of a text in hex
UpperHex(s) ==
  [i \in 1..Len(s) |-> HexUpper[HexValue(s[i]) + 1]]

\* the X-Signature headers for a body: the HMAC in hex as Lemon Squeezy
\* sends it, the same in upper case, and headers that are no HMAC of the
\* body under the secret
LsSignatures(body) ==
  {[headers |-> <<<<"x-signature", hex_lower(Hmac(as_bytes(WebhookSecret), body))>>>>,
    signature |-> "valid"],
   [headers |-> <<<<"content-type", <<"a", "p", "p", "l", "i", "c", "a", "t", "i", "o", "n", "/", "j", "s", "o", "n">>>>,
                  <<"x-signature", UpperHex(hex_lower(Hmac(as_bytes(WebhookSecret), body)))>>>>,
    signature |-> "valid"],
   [headers |-> << >>, signature |-> "missing"],
   [headers |-> <<<<"stripe-signature", hex_lower(Hmac(as_bytes(WebhookSecret), body))>>>>,
    signature |-> "missing"],
   [headers |-> <<<<"x-signature", <<"U+00E9">>>>>>, signature |-> "not text"],
   [headers |-> <<<<"x-signature", << >>>>>>, signature |-> "invalid"],
   [headers |-> <<<<"x-signature", <<"z", "z">>>>>>, signature |-> "invalid"],
   [headers |-> <<<<"x-signature", SubSeq(hex_lower(Hmac(as_bytes(WebhookSecret), body)), 1, 3)>>>>,
    signature |-> "invalid"],
   [headers |-> <<<<"x-signature", hex_lower(Hmac(as_bytes(OtherSecret), body))>>>>,
    signature |-> "invalid"],
   [headers |-> <<<<"x-signature", hex_lower(Hmac(as_bytes(WebhookSecret), OtherBody))>>>>,
    signature |-> "invalid"]}

\* v1 of the Stripe-Signature header for the timestamp t and the body
StripeV1(secret, t, body) ==
  hex_lower(Hmac(as_bytes(secret), as_bytes(t \o <<".">>) \o from_utf8_lossy(body)))

\* the Stripe-Signature headers for a body
StripeSignatures(body) ==
  {[headers |-> <<<<"stripe-signature",
                    <<"t", "=", "1", "7", ",", "v", "1", "=">> \o StripeV1(WebhookSecret, <<"1", "7">>, body)>>>>,
    signature |-> "valid"],
   [headers |-> <<<<"stripe-signature",
                    <<"t", "=", "1", "7", ",", "v", "1", "=">> \o StripeV1(WebhookSecret, <<"1", "7">>, body) \o <<",", "v", "0", "=", "f", "f">>>>>>,
    signature |-> "valid"],
   [headers |-> << >>, signature |-> "missing"],
   [headers |-> <<<<"x-signature", hex_lower(Hmac(as_bytes(WebhookSecret), body))>>>>,
    signature |-> "missing"],
   [headers |-> <<<<"stripe-signature", <<"U+00E9">>>>>>, signature |-> "not text"],
   [headers |-> <<<<"stripe-signature", <<"v", "1", "=">> \o StripeV1(WebhookSecret, <<"1", "7">>, body)>>>>,
    signature |-> "invalid"],
   [headers |-> <<<<"stripe-signature", <<"t", "=", "1", "7">>>>>>, signature |-> "invalid"],
   [headers |-> <<<<"stripe-signature", <<"t", "=", "1", "7", ",", "v", "1", "=", "z", "z">>>>>>, signature |-> "invalid"],
   [headers |-> <<<<"stripe-signature",
                    <<"t", "=", "1", "8", ",", "v", "1", "=">> \o StripeV1(WebhookSecret, <<"1", "7">>, body)>>>>,
    signature |-> "invalid"],
   [headers |-> <<<<"stripe-signature",
                    <<"t", "=", "1", "7", ",", "v", "1", "=">> \o StripeV1(OtherSecret, <<"1", "7">>, body)>>>>,
    signature |-> "invalid"],
   [headers |-> <<<<"stripe-signature",
                    <<"t", "=", "1", "7", ",", "v", "1", "=">> \o StripeV1(WebhookSecret, <<"1", "7">>, OtherBody)>>>>,
    signature |-> "invalid"]}

\* a request: its headers and body, and what they are to the handler
Request(s, b) ==
  [headers |-> s.headers, body |-> b.bytes, signature |-> s.signature,
   content |-> b.content, email |-> b.email, device_id |-> b.device_id]

Requests ==
  [ls     |-> UNION {{Request(s, b) : s \in LsSignatures(b.bytes)} : b \in Bodies(LsDocs)},
   stripe |-> UNION {{Request(s, b) : s \in StripeSignatures(b.bytes)} :
                      b \in Bodies(StripeDocs)}]

\* a request arrives at the server
receive(req) ==
  /\ webhook_pc \in {"waiting", "answered"}
  /\ request' = req
  /\ response' = << >>
  /\ written' = << >>
  /\ webhook_pc' = "received"
  /\ UNCHANGED server
  /\ UNCHANGED <<scrubVars, calls, watchVars, licenseVars, toolVars>>

\* the Lemon Squeezy server answers the request
ls_webhook ==
  /\ webhook_pc = "received"
  /\ server.handler = "ls"
  /\ response' = [status |-> ls_handle_webhook(server, request.headers, request.body).status,
                  body   |-> ls_handle_webhook(server, request.headers, request.body).body]
  /\ written' = ls_handle_webhook(server, request.headers, request.body).file
  /\ webhook_pc' = "answered"
  /\ UNCHANGED <<server, request>>
  /\ UNCHANGED <<scrubVars, calls, watchVars, licenseVars, toolVars>>

\* the Stripe server answers the request
stripe_webhook ==
  /\ webhook_pc = "received"
  /\ server.handler = "stripe"
  /\ response' = [status |-> stripe_handle_webhook(server, request.headers, request.body).status,
                  body   |-> stripe_handle_webhook(server, request.headers, request.body).body]
  /\ written' = stripe_handle_webhook(server, request.headers, request.body).file
  /\ webhook_pc' = "answered"
  /\ UNCHANGED <<server, request>>
  /\ UNCHANGED <<scrubVars, calls, watchVars, licenseVars, toolVars>>

InitWebhook ==
  /\ input = << >>
  /\ mark = <<0, 0>>
  /\ options = ScrubOptionsDefault
  /\ detections = DetectionsDefault
  /\ redacted = NoResult
  /\ summary = CountsDefault
  /\ again = NoRerun
  /\ pc = "ready"
  /\ calls = << >>
  /\ WatchNotStarted
  /\ LicenseNotChecked
  /\ ToolsIdle
  /\ server \in Servers
  /\ request = << >>
  /\ response = << >>
  /\ written = << >>
  /\ webhook_pc = "waiting"

NextWebhook ==
  \/ \E req \in Requests[server.handler] : receive(req)
  \/ ls_webhook
  \/ stripe_webhook

\* both servers, with every private key and directory, and requests of
\* every kind
SpecWebhook ==
  InitWebhook /\ [][NextWebhook]_vars

\* ------------------------------------------------------------------------
\* clipboard.rs: detect_backend and pick_backend
\* ------------------------------------------------------------------------

\* the clipboard utilities has_cmd looks for
Commands ==
  {"pbpaste", "pbcopy", "wl-paste", "wl-copy", "xclip", "xsel"}

\* the desktops: whether WAYLAND_DISPLAY and DISPLAY are set, and the
\* utilities found in PATH that can be executed
Desktops ==
  [wayland : BOOLEAN, x11 : BOOLEAN, commands : SUBSET Commands]

\* has_cmd
has_cmd(d, cmd) ==
  cmd \in d.commands

\* Availability as detect_backend fills it
AvailabilityOf(d) ==
  [pb    |-> has_cmd(d, "pbpaste") /\ has_cmd(d, "pbcopy"),
   wl    |-> has_cmd(d, "wl-paste") /\ has_cmd(d, "wl-copy"),
   xclip |-> has_cmd(d, "xclip"),
   xsel  |-> has_cmd(d, "xsel")]

\* a pick_backend that asks for the X11 session before the Wayland session
pick_backend_x11_first(wayland, x11, a) ==
  IF a.pb THEN Some("Pbpaste")
  ELSE IF x11 /\ a.xclip THEN Some("Xclip")
  ELSE IF x11 /\ a.xsel THEN Some("Xsel")
  ELSE IF wayland /\ a.wl THEN Some("WlPaste")
  ELSE IF a.wl THEN Some("WlPaste")
  ELSE IF a.xclip THEN Some("Xclip")
  ELSE IF a.xsel THEN Some("Xsel")
  ELSE None

\* pick_backend
pick_backend(wayland, x11, a) ==
  IF a.pb THEN Some("Pbpaste")
  ELSE IF wayland /\ a.wl THEN Some("WlPaste")
  ELSE IF x11 /\ a.xclip THEN Some("Xclip")
  ELSE IF x11 /\ a.xsel THEN Some("Xsel")
  ELSE IF a.wl THEN Some("WlPaste")
  ELSE IF a.xclip THEN Some("Xclip")
  ELSE IF a.xsel THEN Some("Xsel")
  ELSE None

\* detect_backend on the desktop: pick_backend with what it finds
detect_backend ==
  /\ backend = << >>
  /\ backend' = <<pick_backend(desktop.wayland, desktop.x11, AvailabilityOf(desktop))>>
  /\ UNCHANGED desktop
  /\ UNCHANGED <<scrubVars, calls, watchVars, licenseVars, webhookVars, configVars, cliVars>>

InitBackend ==
  /\ input = << >>
  /\ mark = <<0, 0>>
  /\ options = ScrubOptionsDefault
  /\ detections = DetectionsDefault
  /\ redacted = NoResult
  /\ summary = CountsDefault
  /\ again = NoRerun
  /\ pc = "ready"
  /\ calls = << >>
  /\ WatchNotStarted
  /\ LicenseNotChecked
  /\ NoRequest
  /\ ConfigNotParsed
  /\ CliNotStarted
  /\ desktop \in Desktops
  /\ backend = << >>

NextBackend ==
  detect_backend

\* every desktop, and the backend chosen on it
SpecBackend ==
  InitBackend /\ [][NextBackend]_vars

\* ------------------------------------------------------------------------
\* config.rs: parse_config, parse_bool, parse_u64
\* ------------------------------------------------------------------------

\* Config::default()
ConfigDefault ==
  [stable_placeholders |-> None, json_report |-> None, interval_ms |-> None]

NoConfigError ==
  [kind |-> "", line |-> 0]

\* ConfigError with its message: what is wrong, and the line
ConfigErr(kind, line) ==
  [ok |-> FALSE, cfg |-> ConfigDefault, error |-> [kind |-> kind, line |-> line]]

ConfigOk(cfg) ==
  [ok |-> TRUE, cfg |-> cfg, error |-> NoConfigError]

\* str::to_ascii_lowercase
to_ascii_lowercase(s) ==
  [i \in 1..Len(s) |-> IF s[i] \in Upper THEN AsciiChar(AsciiCode(s[i]) + 32) ELSE s[i]]

\* a parse_bool that takes the words as written only
parse_bool_case_sensitive(value) ==
  IF value \in {<<"t", "r", "u", "e">>, <<"1">>, <<"y", "e", "s">>} THEN [ok |-> TRUE, value |-> TRUE]
  ELSE IF value \in {<<"f", "a", "l", "s", "e">>, <<"0">>, <<"n", "o">>} THEN [ok |-> TRUE, value |-> FALSE]
  ELSE [ok |-> FALSE, value |-> FALSE]

\* parse_bool
parse_bool(value) ==
  IF to_ascii_lowercase(value) \in {<<"t", "r", "u", "e">>, <<"1">>, <<"y", "e", "s">>}
  THEN [ok |-> TRUE, value |-> TRUE]
  ELSE IF to_ascii_lowercase(value) \in {<<"f", "a", "l", "s", "e">>, <<"0">>, <<"n", "o">>}
       THEN [ok |-> TRUE, value |-> FALSE]
       ELSE [ok |-> FALSE, value |-> FALSE]

\* u64::MAX in decimal
U64Max ==
  <<"1", "8", "4", "4", "6", "7", "4", "4", "0", "7", "3", "7", "0", "9", "5", "5", "1", "6", "1", "5">>

\* the digits ds without leading zeros
Significant(ds) ==
  LET nz == {i \in 1..Len(ds) : ds[i] # "0"}
  IN  IF nz = {} THEN << >>
      ELSE SubSeq(ds, CHOOSE i \in nz : \A j \in nz : i <= j, Len(ds))

\* the number a is above the number b, both in digits without leading zeros
DigitsAbove(a, b) ==
  \/ Len(a) > Len(b)
  \/ /\ Len(a) = Len(b)
     /\ \E i \in 1..Len(a) :
          /\ AsciiCode(a[i]) > AsciiCode(b[i])
          /\ \A j \in 1..(i - 1) : a[j] = b[j]

\* the value of the digits ds
RECURSIVE ValueOfDigits(_)
ValueOfDigits(ds) ==
  IF ds = << >> THEN 0
  ELSE (10 * ValueOfDigits(SubSeq(ds, 1, Len(ds) - 1))) + (AsciiCode(ds[Len(ds)]) - 48)

\* str::parse::<u64>: decimal digits after an optional "+", Err for
\* anything else, for no digit and for a number above u64::MAX
parse_u64(value) ==
  LET ds == IF value # << >> /\ value[1] = "+" THEN Tail(value) ELSE value
  IN  IF ds = << >> \/ (\E i \in 1..Len(ds) : ds[i] \notin Digit)
         \/ DigitsAbove(Significant(ds), U64Max)
      THEN [ok |-> FALSE, value |-> 0]
      ELSE [ok |-> TRUE, value |-> ValueOfDigits(Significant(ds))]

\* parse_config from line i of ls on, with the Config so far
RECURSIVE ParseLines(_, _, _)
ParseLines(ls, i, cfg) ==
  IF i > Len(ls) THEN ConfigOk(cfg)
  ELSE LET line == trim(ls[i])
           key == trim(SplitKey(line))
           value == trim(SplitValue(line))
       IN  IF line = << >> \/ line[1] = "#" THEN ParseLines(ls, i + 1, cfg)
           ELSE IF value = << >> THEN ConfigErr("missing value", i)
           ELSE IF key = <<"s", "t", "a", "b", "l", "e", "_", "p", "l", "a", "c", "e", "h", "o", "l", "d", "e", "r", "s">>
                THEN IF parse_bool(value).ok
                     THEN ParseLines(ls, i + 1,
                            [cfg EXCEPT !.stable_placeholders = Some(parse_bool(value).value)])
                     ELSE ConfigErr("Invalid boolean", i)
           ELSE IF key = <<"j", "s", "o", "n", "_", "r", "e", "p", "o", "r", "t">>
                THEN IF parse_bool(value).ok
                     THEN ParseLines(ls, i + 1,
                            [cfg EXCEPT !.json_report = Some(parse_bool(value).value)])
                     ELSE ConfigErr("Invalid boolean", i)
           ELSE IF key = <<"i", "n", "t", "e", "r", "v", "a", "l", "_", "m", "s">>
                THEN IF parse_u64(value).ok
                     THEN ParseLines(ls, i + 1,
                            [cfg EXCEPT !.interval_ms = Some(parse_u64(value).value)])
                     ELSE ConfigErr("Invalid integer", i)
           ELSE ConfigErr("Unknown config key", i)

\* parse_config
parse_config(text) ==
  ParseLines(lines(text), 1, ConfigDefault)

\* the lines config files are made of, each with what it is: a line to
\* skip, a line that sets key to the value, or a line that is wrong
ConfigLine(text, what, key, bool, num) ==
  [text |-> text, what |-> what, key |-> key, bool |-> bool, num |-> num]

ConfigLines ==
  {ConfigLine(<< >>, "skip", "", FALSE, 0),
   ConfigLine(<<" ", "\t">>, "skip", "", FALSE, 0),
   ConfigLine(<<"#", " ", "i", "n", "t", "e", "r", "v", "a", "l", "_", "m", "s", "=", "5">>, "skip", "", FALSE, 0),
   ConfigLine(<<" ", " ", "#", "=">>, "skip", "", FALSE, 0),
   ConfigLine(<<"s", "t", "a", "b", "l", "e", "_", "p", "l", "a", "c", "e", "h", "o", "l", "d", "e", "r", "s", "=", "t", "r", "u", "e">>, "set", "stable_placeholders", TRUE, 0),
   ConfigLine(<<" ", "s", "t", "a", "b", "l", "e", "_", "p", "l", "a", "c", "e", "h", "o", "l", "d", "e", "r", "s", " ", "=", " ", "N", "o", " ">>, "set", "stable_placeholders", FALSE, 0),
   ConfigLine(<<"j", "s", "o", "n", "_", "r", "e", "p", "o", "r", "t", "=", "1">>, "set", "json_report", TRUE, 0),
   ConfigLine(<<"j", "s", "o", "n", "_", "r", "e", "p", "o", "r", "t", "=", "F", "A", "L", "S", "E">>, "set", "json_report", FALSE, 0),
   ConfigLine(<<"i", "n", "t", "e", "r", "v", "a", "l", "_", "m", "s", "=", "5", "0", "0">>, "set", "interval_ms", FALSE, 500),
   ConfigLine(<<"i", "n", "t", "e", "r", "v", "a", "l", "_", "m", "s", "=", "0", "0", "7">>, "set", "interval_ms", FALSE, 7),
   ConfigLine(<<"i", "n", "t", "e", "r", "v", "a", "l", "_", "m", "s", "=", "+", "5", "0">>, "set", "interval_ms", FALSE, 50),
   ConfigLine(<<"i", "n", "t", "e", "r", "v", "a", "l", "_", "m", "s", "=", "-", "1">>, "wrong", "", FALSE, 0),
   ConfigLine(<<"i", "n", "t", "e", "r", "v", "a", "l", "_", "m", "s", "=", "1", "8", "4", "4", "6", "7", "4", "4", "0", "7", "3", "7", "0", "9", "5", "5", "1", "6", "1", "6">>, "wrong", "", FALSE, 0),
   ConfigLine(<<"i", "n", "t", "e", "r", "v", "a", "l", "_", "m", "s", "=">>, "wrong", "", FALSE, 0),
   ConfigLine(<<"j", "s", "o", "n", "_", "r", "e", "p", "o", "r", "t">>, "wrong", "", FALSE, 0),
   ConfigLine(<<"j", "s", "o", "n", "_", "r", "e", "p", "o", "r", "t", "=", "m", "a", "y", "b", "e">>, "wrong", "", FALSE, 0),
   ConfigLine(<<"j", "s", "o", "n", "_", "r", "e", "p", "o", "r", "t", "=", "t", "r", "u", "e", " ", "#", " ", "o", "n">>, "wrong", "", FALSE, 0),
   ConfigLine(<<"J", "s", "o", "n", "_", "R", "e", "p", "o", "r", "t", "=", "t", "r", "u", "e">>, "wrong", "", FALSE, 0),
   ConfigLine(<<"c", "o", "l", "o", "u", "r", "=", "t", "r", "u", "e">>, "wrong", "", FALSE, 0),
   ConfigLine(<<"=", "t", "r", "u", "e">>, "wrong", "", FALSE, 0)}

\* config files have up to MaxConfigLines lines
MaxConfigLines ==
  2

\* a config file of the lines ls, each ended by eol, the last one too when
\* closed
ConfigFile(ls, eol, closed) ==
  [text |-> IF closed \/ ls = << >>
            THEN JoinLines([k \in 1..Len(ls) |-> ls[k].text], eol)
            ELSE SubSeq(JoinLines([k \in 1..Len(ls) |-> ls[k].text], eol), 1,
                        Len(JoinLines([k \in 1..Len(ls) |-> ls[k].text], eol)) - Len(eol)),
   made_of |-> ls]

ConfigFiles ==
  {ConfigFile(ls, eol, closed) :
     ls \in UNION {[1..n -> ConfigLines] : n \in 0..MaxConfigLines},
     eol \in {<<"\n">>, <<"\r", "\n">>},
     closed \in BOOLEAN}

\* parse_config on the text of the file
parse_config_call ==
  /\ parsed = << >>
  /\ parsed' = <<parse_config(config_text.text)>>
  /\ UNCHANGED config_text
  /\ UNCHANGED <<scrubVars, calls, watchVars, licenseVars, webhookVars, backendVars, cliVars>>

InitConfig ==
  /\ input = << >>
  /\ mark = <<0, 0>>
  /\ options = ScrubOptionsDefault
  /\ detections = DetectionsDefault
  /\ redacted = NoResult
  /\ summary = CountsDefault
  /\ again = NoRerun
  /\ pc = "ready"
  /\ calls = << >>
  /\ WatchNotStarted
  /\ LicenseNotChecked
  /\ NoRequest
  /\ BackendNotPicked
  /\ CliNotStarted
  /\ config_text \in ConfigFiles
  /\ parsed = << >>

NextConfig ==
  parse_config_call

\* config files of up to MaxConfigLines lines of every kind
SpecConfig ==
  InitConfig /\ [][NextConfig]_vars

\* ------------------------------------------------------------------------
\* main.rs: main and apply_feature_gates
\* ------------------------------------------------------------------------

\* the Pro features a build can have
ProFeatures ==
  {"pro-json-report", "pro-stable-placeholders", "pro-config", "pro-file-stdin"}

\* the builds of the model: with every Pro feature, with none, and without
\* pro-config only
Builds ==
  {ProFeatures, {}, ProFeatures \ {"pro-config"}}

\* the options a command line is made of, each with its value when it has
\* one; --interval-ms also without one
OptionWords ==
  {<<<<"-", "-", "c", "l", "i", "p", "b", "o", "a", "r", "d">>>>, <<<<"-", "-", "w", "a", "t", "c", "h">>>>, <<<<"-", "-", "j", "s", "o", "n">>>>, <<<<"-", "-", "s", "t", "a", "b", "l", "e">>>>,
   <<<<"-", "-", "s", "t", "d", "i", "n">>>>, <<<<"-", "-", "d", "e", "v", "i", "c", "e", "-", "i", "d">>>>, <<<<"-", "-", "v", "e", "r", "b", "o", "s", "e">>>>,
   <<<<"-", "-", "i", "n", "t", "e", "r", "v", "a", "l", "-", "m", "s">>, <<"5", "0">>>>, <<<<"-", "-", "i", "n", "t", "e", "r", "v", "a", "l", "-", "m", "s">>, <<"1", "0", "0">>>>,
   <<<<"-", "-", "i", "n", "t", "e", "r", "v", "a", "l", "-", "m", "s">>>>,
   <<<<"-", "-", "c", "o", "n", "f", "i", "g">>, <<"s", "c", "r", "u", "b", "b", "y", ".", "c", "o", "n", "f">>>>, <<<<"-", "-", "f", "i", "l", "e">>, <<"l", "o", "g", ".", "t", "x", "t">>>>}

\* command lines have up to MaxOptions options
MaxOptions ==
  3

Argvs ==
  {Concat(ws) : ws \in UNION {[1..n -> OptionWords] : n \in 0..MaxOptions}}

\* what check_license can find when the command runs: a licence for this
\* machine, the DEV bypass of a debug build, no licence file, a file with a
\* wrong signature, and a licence for another machine
HereEnvs ==
  {e \in LicenseEnvs :
     /\ e.config_dir
     /\ e.machine = ThisMachine
     /\ e.public_key_b64 = B64Encode(verifying_key(SignerSeed))
     /\ \/ e.debug_assertions /\ e.SCRUBBY_LICENSE = Some(<<"D", "E", "V">>)
        \/ ~e.debug_assertions /\ e.SCRUBBY_LICENSE = None}

CliLicenseEnvs ==
  {CHOOSE e \in HereEnvs : ~DevBypass(e) /\ check_license(e).ok
                             /\ check_license(e).license # None
                             /\ check_license(e).license[1].email # None,
   CHOOSE e \in HereEnvs : DevBypass(e),
   CHOOSE e \in HereEnvs : check_license(e).ok /\ check_license(e).license = None,
   CHOOSE e \in HereEnvs : e.broken = "signature",
   CHOOSE e \in HereEnvs : check_license(e).message = "License is not valid for this device"}

\* check_license in each of them
LicenseChecks ==
  {check_license(e) : e \in CliLicenseEnvs}

\* what load_config can find: no file that can be read, or a file with
\* this text
CliConfigTexts ==
  {<<"i", "n", "t", "e", "r", "v", "a", "l", "_", "m", "s", "=", "5", "0", "0">> \o <<"\n">>,
   <<"i", "n", "t", "e", "r", "v", "a", "l", "_", "m", "s", "=", "5", "0">> \o <<"\n">>,
   <<"s", "t", "a", "b", "l", "e", "_", "p", "l", "a", "c", "e", "h", "o", "l", "d", "e", "r", "s", "=", "t", "r", "u", "e">> \o <<"\n">> \o <<"j", "s", "o", "n", "_", "r", "e", "p", "o", "r", "t", "=", "t", "r", "u", "e">> \o <<"\n">>,
   <<"j", "s", "o", "n", "_", "r", "e", "p", "o", "r", "t", "=", "f", "a", "l", "s", "e">> \o <<"\n">>,
   <<"#", " ", "s", "c", "r", "u", "b", "b", "y">> \o <<"\n">>,
   <<"c", "o", "l", "o", "u", "r", "=", "t", "r", "u", "e">> \o <<"\n">>}

\* load_config: Err when the file cannot be read, else parse_config
LoadedConfigs ==
  {ConfigErr("Failed to read config", 0)} \cup {parse_config(t) : t \in CliConfigTexts}

\* what the command does, as seen from outside
Event(kind, what, n) ==
  [kind |-> kind, what |-> what, n |-> n]

Exit(status) ==
  Event("exit", "", status)

\* the locals of main before the first argument
MainLocals ==
  [next |-> 1, mode |-> None, interval_ms |-> 750, json |-> FALSE, stable |-> FALSE,
   config_path |-> None, file_path |-> None, stdin_mode |-> FALSE,
   options |-> ScrubOptionsDefault, license |-> None]

\* std::process::exit(status)
exit(status) ==
  /\ events' = Append(events, Exit(status))
  /\ cli_pc' = "exited"
  /\ UNCHANGED cli

\* the argument is taken and the loop goes on
Taken(locals, count) ==
  /\ cli' = [locals EXCEPT !.next = cli.next + count]
  /\ UNCHANGED <<cli_pc, events>>

\* the interval of --interval-ms: a u64 that is at least 100
IntervalArg(v) ==
  IF parse_u64(v).ok /\ parse_u64(v).value >= 100 THEN Some(parse_u64(v).value) ELSE None

\* main, one turn of the loop over the arguments
parse_arg ==
  /\ cli_pc = "args"
  /\ cli.next <= Len(argv)
  /\ LET arg == argv[cli.next]
         has_value == cli.next + 1 <= Len(argv)
     IN  IF arg \in {<<"-", "-", "c", "l", "i", "p", "b", "o", "a", "r", "d">>, <<"-", "-", "w", "a", "t", "c", "h">>}
         THEN IF cli.mode # None THEN exit(1)
              ELSE Taken([cli EXCEPT !.mode = Some(arg)], 1)
         ELSE IF arg = <<"-", "-", "i", "n", "t", "e", "r", "v", "a", "l", "-", "m", "s">>
         THEN IF ~has_value THEN exit(1)
              ELSE IF IntervalArg(argv[cli.next + 1]) = None THEN exit(1)
              ELSE Taken([cli EXCEPT !.interval_ms = IntervalArg(argv[cli.next + 1])[1]], 2)
         ELSE IF arg = <<"-", "-", "j", "s", "o", "n">> THEN Taken([cli EXCEPT !.json = TRUE], 1)
         ELSE IF arg = <<"-", "-", "s", "t", "a", "b", "l", "e">> THEN Taken([cli EXCEPT !.stable = TRUE], 1)
         ELSE IF arg = <<"-", "-", "c", "o", "n", "f", "i", "g">>
         THEN IF ~has_value THEN exit(1)
              ELSE Taken([cli EXCEPT !.config_path = Some(argv[cli.next + 1])], 2)
         ELSE IF arg = <<"-", "-", "f", "i", "l", "e">>
         THEN IF ~has_value THEN exit(1)
              ELSE Taken([cli EXCEPT !.file_path = Some(argv[cli.next + 1])], 2)
         ELSE IF arg = <<"-", "-", "s", "t", "d", "i", "n">> THEN Taken([cli EXCEPT !.stdin_mode = TRUE], 1)
         ELSE IF arg = <<"-", "-", "d", "e", "v", "i", "c", "e", "-", "i", "d">>
         THEN \/ /\ events' = Append(events, Event("print", "device id", 0))
                 /\ cli_pc' = "done"
                 /\ UNCHANGED cli
              \/ exit(1)
         ELSE exit(1)
  /\ UNCHANGED <<argv, cli_env>>
  /\ UNCHANGED <<scrubVars, calls, watchVars, licenseVars, webhookVars, backendVars, configVars>>

\* main after the arguments: the mode, and the options that exclude each
\* other
check_modes ==
  /\ cli_pc = "args"
  /\ cli.next > Len(argv)
  /\ IF cli.stdin_mode /\ cli.file_path # None THEN exit(1)
     ELSE IF unwrap_or(cli.mode, <<"-", "-", "c", "l", "i", "p", "b", "o", "a", "r", "d">>) = <<"-", "-", "w", "a", "t", "c", "h">>
             /\ (cli.stdin_mode \/ cli.file_path # None)
          THEN exit(1)
          ELSE /\ cli' = [cli EXCEPT !.mode = Some(unwrap_or(cli.mode, <<"-", "-", "c", "l", "i", "p", "b", "o", "a", "r", "d">>))]
               /\ cli_pc' = "gate"
               /\ UNCHANGED events
  /\ UNCHANGED <<argv, cli_env>>
  /\ UNCHANGED <<scrubVars, calls, watchVars, licenseVars, webhookVars, backendVars, configVars>>

\* the Pro options asked for, by the feature each needs
Requested(json, stable, config, file_stdin) ==
  {f \in ProFeatures :
     \/ f = "pro-json-report" /\ json
     \/ f = "pro-stable-placeholders" /\ stable
     \/ f = "pro-config" /\ config
     \/ f = "pro-file-stdin" /\ file_stdin}

\* an apply_feature_gates that asks for no licence when only --stable is
\* given
NeedsLicense_but_for_stable(json, stable, config, file_stdin) ==
  json \/ config \/ file_stdin

\* apply_feature_gates asks for a licence
NeedsLicense(json, stable, config, file_stdin) ==
  json \/ stable \/ config \/ file_stdin

\* apply_feature_gates: exit 1 for an option whose feature the build lacks;
\* with a Pro option, check_license, and exit 3 unless it gives a licence
apply_feature_gates ==
  /\ cli_pc = "gate"
  /\ LET json == cli.json
         stable == cli.stable
         config == cli.config_path # None
         file_stdin == cli.stdin_mode \/ cli.file_path # None
     IN  IF ~(Requested(json, stable, config, file_stdin) \subseteq cli_env.features)
         THEN exit(1)
         ELSE IF NeedsLicense(json, stable, config, file_stdin)
              THEN \E checked_here \in LicenseChecks :
                     IF ~checked_here.ok
                     THEN /\ events' = events \o <<Event("check_license", "error", 0), Exit(3)>>
                          /\ cli_pc' = "exited"
                          /\ UNCHANGED cli
                     ELSE IF checked_here.license = None
                          THEN /\ events' = events \o <<Event("check_license", "none", 0), Exit(3)>>
                               /\ cli_pc' = "exited"
                               /\ UNCHANGED cli
                          ELSE /\ events' = Append(events, Event("check_license", "licence", 0))
                               /\ cli' = [cli EXCEPT !.license = checked_here.license]
                               /\ cli_pc' = "config"
              ELSE /\ cli_pc' = "config"
                   /\ UNCHANGED <<cli, events>>
  /\ UNCHANGED <<argv, cli_env>>
  /\ UNCHANGED <<scrubVars, calls, watchVars, licenseVars, webhookVars, backendVars, configVars>>

\* the locals after a config file has been loaded and --stable applied
Configured(locals, cfg) ==
  [locals EXCEPT
     !.options = [stable_placeholders |->
                    IF locals.stable THEN TRUE
                    ELSE unwrap_or(cfg.stable_placeholders, locals.options.stable_placeholders)],
     !.json = unwrap_or(cfg.json_report, locals.json),
     !.interval_ms = unwrap_or(cfg.interval_ms, locals.interval_ms)]

\* main: the config file when --config names one, then --stable
configure ==
  /\ cli_pc = "config"
  /\ IF cli.config_path # None
     THEN \E loaded \in LoadedConfigs :
            IF loaded.ok
            THEN /\ cli' = Configured(cli, loaded.cfg)
                 /\ events' = Append(events, Event("load_config", "ok", 0))
                 /\ cli_pc' = "run"
            ELSE /\ events' = events \o <<Event("load_config", "error", 0), Exit(1)>>
                 /\ cli_pc' = "exited"
                 /\ UNCHANGED cli
     ELSE /\ cli' = Configured(cli, ConfigDefault)
          /\ cli_pc' = "run"
          /\ UNCHANGED events
  /\ UNCHANGED <<argv, cli_env>>
  /\ UNCHANGED <<scrubVars, calls, watchVars, licenseVars, webhookVars, backendVars, configVars>>

Mode(stable_placeholders) ==
  IF stable_placeholders THEN "stable" ELSE "fixed"

\* run_stdin and run_file: read, scrub, print the text, and the JSON report
\* with json
ReadAndPrint(from, locals, read_ok) ==
  IF ~read_ok THEN <<Event("read", from, 0), Exit(2)>>
  ELSE <<Event("read", from, 0),
         Event("scrub", Mode(locals.options.stable_placeholders), 0),
         Event("write", "stdout", 0)>>
         \o (IF locals.json THEN <<Event("report", "json", 0)>> ELSE << >>)

\* run_once, and a turn of the loop of run_watch: read the clipboard,
\* scrub, write the clipboard, report
ClipboardTurn(locals, read_ok, write_ok) ==
  IF ~read_ok THEN <<Event("read", "clipboard", 0), Exit(2)>>
  ELSE IF ~write_ok
       THEN <<Event("read", "clipboard", 0),
              Event("scrub", Mode(locals.options.stable_placeholders), 0),
              Event("write", "clipboard", 0), Exit(3)>>
       ELSE <<Event("read", "clipboard", 0),
              Event("scrub", Mode(locals.options.stable_placeholders), 0),
              Event("write", "clipboard", 0),
              Event("report", IF locals.json THEN "json" ELSE "summary", 0)>>

\* main: run_stdin, run_file, run_once or run_watch
run ==
  /\ cli_pc = "run"
  /\ \E read_ok \in BOOLEAN, write_ok \in BOOLEAN :
       LET done == IF cli.stdin_mode THEN ReadAndPrint("stdin", cli, read_ok)
                   ELSE IF cli.file_path # None THEN ReadAndPrint("file", cli, read_ok)
                   ELSE IF cli.mode = Some(<<"-", "-", "c", "l", "i", "p", "b", "o", "a", "r", "d">>)
                        THEN ClipboardTurn(cli, read_ok, write_ok)
                        ELSE <<Event("run_watch", "", cli.interval_ms)>>
                               \o ClipboardTurn(cli, read_ok, write_ok)
       IN  /\ events' = events \o done
           /\ cli_pc' = IF done[Len(done)].kind = "exit" THEN "exited"
                        ELSE IF cli.stdin_mode \/ cli.file_path # None
                                \/ cli.mode = Some(<<"-", "-", "c", "l", "i", "p", "b", "o", "a", "r", "d">>)
                             THEN "done"
                             ELSE "watching"
  /\ UNCHANGED <<argv, cli_env, cli>>
  /\ UNCHANGED <<scrubVars, calls, watchVars, licenseVars, webhookVars, backendVars, configVars>>

InitCli ==
  /\ input = << >>
  /\ mark = <<0, 0>>
  /\ options = ScrubOptionsDefault
  /\ detections = DetectionsDefault
  /\ redacted = NoResult
  /\ summary = CountsDefault
  /\ again = NoRerun
  /\ pc = "ready"
  /\ calls = << >>
  /\ WatchNotStarted
  /\ LicenseNotChecked
  /\ NoRequest
  /\ BackendNotPicked
  /\ ConfigNotParsed
  /\ argv \in Argvs
  /\ cli_env \in [features : Builds]
  /\ cli = MainLocals
  /\ cli_pc = "args"
  /\ events = << >>

NextCli ==
  \/ parse_arg
  \/ check_modes
  \/ apply_feature_gates
  \/ configure
  \/ run

\* the command with every command line of up to MaxOptions options, in
\* every build
SpecCli ==
  InitCli /\ [][NextCli]_vars

\* ------------------------------------------------------------------------
\* Vocabulary of the properties
\* ------------------------------------------------------------------------

Categories ==
  {"emails", "ips", "uuids", "jwts", "tokens"}

\* the placeholder names as the specification writes them
NameOf ==
  [emails |-> <<"E", "M", "A", "I", "L">>,
   ips    |-> <<"I", "P">>,
   uuids  |-> <<"U", "U", "I", "D">>,
   jwts   |-> <<"J", "W", "T">>,
   tokens |-> <<"T", "O", "K", "E", "N">>]

\* <NAME>
FixedText(c) ==
  <<"<">> \o NameOf[c] \o <<">">>

\* the value of a run of decimal digits
RECURSIVE DigitsValue(_)
DigitsValue(ds) ==
  IF ds = << >> THEN 0
  ELSE 10 * DigitsValue(SubSeq(ds, 1, Len(ds) - 1))
       + (CHOOSE v \in 0..9 : DigitChars[v + 1] = ds[Len(ds)])

\* p occurs in t at position i
OccursAt(t, p, i) ==
  /\ i + Len(p) - 1 <= Len(t)
  /\ \A k \in 1..Len(p) : t[i + k - 1] = p[k]

Contains(t, p) ==
  \E i \in 1..Len(t) : OccursAt(t, p, i)

Occurrences(t, p) ==
  Cardinality({i \in 1..Len(t) : OccursAt(t, p, i)})

\* <NAME_n> with n written in decimal without a leading zero stands at i:
\* the position of its '>', else 0
NumberedEndAt(t, c, i) ==
  LET pre == <<"<">> \o NameOf[c] \o <<"_">>
      d   == i + Len(pre)
      e   == RunEnd(t, d, Digit)
  IN  IF OccursAt(t, pre, i) /\ e > d /\ CharAt(t, e) = ">" /\ t[d] # "0"
      THEN e ELSE 0

\* the number n of the <NAME_n> that stands at i, else 0
NumberedAt(t, c, i) ==
  LET d == i + Len(NameOf[c]) + 2
      e == NumberedEndAt(t, c, i)
  IN  IF e = 0 THEN 0 ELSE DigitsValue(SubSeq(t, d, e - 1))

\* p is one numbered placeholder and nothing else
IsNumberedText(p) ==
  \E c \in Categories : NumberedEndAt(p, c, 1) = Len(p)

\* p is one fixed placeholder and nothing else
IsFixedText(p) ==
  \E c \in Categories : p = FixedText(c)

\* the numbers of the numbered placeholders of category c, left to right
NumbersOf(t, c) ==
  LET at == {i \in 1..Len(t) : NumberedAt(t, c, i) # 0}
  IN  [k \in 1..Cardinality(at) |->
         NumberedAt(t, c, CHOOSE i \in at : Cardinality({j \in at : j <= i}) = k)]

\* the text holds a fixed or a numbered placeholder of some category
HasPlaceholderText(t) ==
  \E c \in Categories :
    \/ Contains(t, FixedText(c))
    \/ \E i \in 1..Len(t) : NumberedAt(t, c, i) # 0

\* the positions where a placeholder written by redact starts in its
\* result r: the first character of every run of equal ph entries
PlaceholderStarts(r) ==
  {k \in 1..Len(r.org) : r.org[k].ph /\ (k = 1 \/ r.org[k - 1] # r.org[k])}

\* the text of the placeholder that starts at k
PlaceholderTextAt(r, k) ==
  LET e == CHOOSE j \in k..Len(r.org) :
             /\ \A x \in k..j : r.org[x] = r.org[k]
             /\ (j = Len(r.org) \/ r.org[j + 1] # r.org[k])
  IN  SubSeq(r.text, k, e)

Scrubbed ==
  pc = "scrubbed"

Stable ==
  options.stable_placeholders

\* ------------------------------------------------------------------------
\* Properties
\* ------------------------------------------------------------------------

\* C1: redact run on the text that redact returned gives that same text
\* back and counts no replacement in any category, for both option values.
C1_Idempotent ==
  pc = "rescrubbed" =>
    /\ again.text = redacted.text
    /\ again.counts = CountsDefault

\* a second call on a text in which the first call replaced an email and a
\* token with numbered placeholders
C1_Witness ==
  /\ pc = "rescrubbed"
  /\ Stable
  /\ redacted.counts.emails >= 1
  /\ redacted.counts.tokens >= 1

\* C2: when scan reports no span in any of the five categories, redact
\* returns the document itself and all five counts are 0 (the empty
\* document included), for both option values.
C2_NoOpOnCleanText ==
  (Scrubbed /\ detections = DetectionsDefault) =>
    /\ redacted.text = input
    /\ redacted.counts = CountsDefault
    /\ summary = CountsDefault

\* a clean document that holds a long run the entropy test turns down
C2_Witness ==
  /\ Scrubbed
  /\ detections = DetectionsDefault
  /\ FindIter("TOKEN_CANDIDATE_RE", input) # << >>

\* the document is one email-shaped string whose local part has 32 or more
\* characters and entropy of at least 3.5
IsLongLocalEmail(d) ==
  /\ EmailEndAt(d, 1) = Len(d) + 1
  /\ LET at    == CHOOSE i \in 1..Len(d) :
                    d[i] = "@" /\ \A j \in 1..(i - 1) : d[j] # "@"
         local == SubSeq(d, 1, at - 1)
     IN  Len(local) >= 32 /\ shannon_entropy(local) >= DetectThresholdE6

\* C3: a document that is one email-shaped string with a long high-entropy
\* local part comes back as exactly one Email placeholder; emails is 1 and
\* tokens (like every other count) is 0.
C3_EmailBeforeToken ==
  (Scrubbed /\ IsLongLocalEmail(input)) =>
    /\ redacted.text = IF Stable
                       THEN <<"<">> \o NameOf.emails \o <<"_", "1", ">">>
                       ELSE FixedText("emails")
    /\ redacted.counts = [CountsDefault EXCEPT !.emails = 1]

\* such an email went through redact with numbered placeholders
C3_Witness ==
  Scrubbed /\ IsLongLocalEmail(input) /\ Stable

\* C4: on the example input scrub_text returns a text that contains each of
\* <EMAIL>, <IP>, <UUID>, <JWT>, <TOKEN> and a summary with all counts 1.
C4_EndToEndRedaction ==
  (Scrubbed /\ input = ExampleInput /\ options = ScrubOptionsDefault) =>
    /\ \A c \in Categories : Contains(redacted.text, FixedText(c))
    /\ \A c \in Categories : summary[c] = 1

\* scrub_text has returned for the example input
C4_Witness ==
  Scrubbed /\ input = ExampleInput /\ options = ScrubOptionsDefault

\* C5: on the example input scan returns exactly one span in each of the
\* five lists, as many as redact counts in that category.
C5_EndToEndScan ==
  (Scrubbed /\ input = ExampleInput) =>
    \A c \in Categories :
      Len(detections[c]) = 1 /\ Len(detections[c]) = redacted.counts[c]

\* C6: with stable_placeholders a document without placeholder text of its
\* own comes back with, for every category, the numbered placeholders
\* carrying 1, 2, .., count from left to right, and no fixed placeholder.
C6_StableNumbering ==
  (Scrubbed /\ Stable /\ ~HasPlaceholderText(input)) =>
    \A c \in Categories :
      /\ NumbersOf(redacted.text, c) = [k \in 1..redacted.counts[c] |-> k]
      /\ ~Contains(redacted.text, FixedText(c))

\* a category was replaced ten times or more, so a number has two digits
C6_Witness ==
  /\ Scrubbed /\ Stable /\ ~HasPlaceholderText(input)
  /\ \E c \in Categories : redacted.counts[c] >= 10

\* C7: without stable_placeholders every placeholder redact writes is one
\* of the five fixed literals, and for a document without placeholder text
\* of its own each literal occurs in the output as often as its category
\* was counted, with no numbered placeholder anywhere.
C7_FixedPlaceholders ==
  (Scrubbed /\ ~Stable) =>
    /\ \A k \in PlaceholderStarts(redacted) :
         IsFixedText(PlaceholderTextAt(redacted, k))
    /\ ~HasPlaceholderText(input) =>
         \A c \in Categories :
           /\ Occurrences(redacted.text, FixedText(c)) = redacted.counts[c]
           /\ NumbersOf(redacted.text, c) = << >>

\* an email placeholder written by the first pass is followed by a token
\* placeholder written by the last
C7_Witness ==
  /\ Scrubbed /\ ~Stable /\ ~HasPlaceholderText(input)
  /\ redacted.counts.emails >= 1
  /\ redacted.counts.tokens >= 1

\* C8: the output is the input with disjoint spans, in order, each replaced
\* by one placeholder; every other character is copied unchanged, in its
\* order, and the output holds nothing else.
C8_UnmatchedTextPreserved ==
  Scrubbed =>
    LET t == redacted.text
        g == redacted.org
    IN  /\ Len(g) = Len(t)
        /\ t = << >> => input = << >>
        /\ t # << >> => g[1].from = 1 /\ g[Len(g)].to = Len(input) + 1
        /\ \A k \in 1..(Len(t) - 1) :
             \/ g[k].ph /\ g[k + 1] = g[k]
             \/ g[k + 1].from = g[k].to
        /\ \A k \in 1..Len(t) :
             ~g[k].ph => g[k].to = g[k].from + 1 /\ t[k] = input[g[k].from]
        /\ \A k \in PlaceholderStarts(redacted) :
             /\ g[k].from < g[k].to
             /\ IF Stable THEN IsNumberedText(PlaceholderTextAt(redacted, k))
                ELSE IsFixedText(PlaceholderTextAt(redacted, k))

\* two spans or more were replaced and text was copied as well
C8_Witness ==
  /\ Scrubbed
  /\ Cardinality(PlaceholderStarts(redacted)) >= 2
  /\ \E k \in 1..Len(redacted.org) : ~redacted.org[k].ph

\* the span <<s, e>> shares no character with the marked placeholder
ClearOfMark(span) ==
  span[2] <= mark[1] \/ span[1] >= mark[2]

\* C9: a fixed or numbered placeholder, alone or inside other text, has no
\* character in a span any of the five patterns matches; every pass copies
\* it, and no pass replaces a character of a placeholder an earlier pass
\* wrote.
C9_PlaceholdersInert ==
  Scrubbed =>
    /\ \A c \in Categories :
         \A k \in 1..Len(detections[c]) : ClearOfMark(detections[c][k])
    /\ LET cand == FindIter("TOKEN_CANDIDATE_RE", input)
       IN  \A k \in 1..Len(cand) : ClearOfMark(cand[k])
    /\ \A p \in mark[1]..(mark[2] - 1) :
         \E k \in 1..Len(redacted.org) :
           redacted.org[k] = [from |-> p, to |-> p + 1, ph |-> FALSE]
    /\ ~redacted.hit

\* a numbered placeholder of nine characters or more stands in a document
\* in which scan finds something and redact replaces something
C9_Witness ==
  /\ Scrubbed
  /\ mark[2] - mark[1] >= 9
  /\ detections # DetectionsDefault
  /\ redacted.counts # CountsDefault

\* the text is three non-empty runs of URL-safe base64 characters joined by
\* two dots, with a word boundary on both sides
IsJwtShaped(d) ==
  /\ Len(d) >= 5
  /\ Cardinality({k \in 1..Len(d) : d[k] = "."}) = 2
  /\ \A k \in 1..Len(d) : d[k] = "." \/ d[k] \in Base64UrlChar
  /\ d[1] # "." /\ d[Len(d)] # "."
  /\ \A k \in 1..(Len(d) - 1) : ~(d[k] = "." /\ d[k + 1] = ".")
  /\ Boundary(d, 1) /\ Boundary(d, Len(d) + 1)

\* the document came back as one JWT placeholder, counted once and in no
\* other category
OnlyOneJwt ==
  /\ redacted.text = IF Stable
                     THEN <<"<">> \o NameOf.jwts \o <<"_", "1", ">">>
                     ELSE FixedText("jwts")
  /\ redacted.counts = [CountsDefault EXCEPT !.jwts = 1]

MarkedText ==
  SubSeq(input, mark[1], mark[2] - 1)

\* the marked 8-4-4-4-12 string has a version nibble other than 4 or a
\* variant nibble other than 8, 9, a, b (in either case)
NotVersion4 ==
  /\ Len(MarkedText) = 36
  /\ \/ MarkedText[15] # "4"
     \/ MarkedText[20] \notin {"8", "9", "a", "b", "A", "B"}

\* C11: for an 8-4-4-4-12 string whose version nibble is not 4 or whose
\* variant nibble is not 8, 9, a or b, scan reports no UUID span, redact
\* counts no UUID and writes no UUID placeholder, fixed or numbered.
C11_UuidVersionGate ==
  (Scrubbed /\ NotVersion4) =>
    /\ detections.uuids = << >>
    /\ redacted.counts.uuids = 0
    /\ ~Contains(redacted.text, <<"<">> \o NameOf.uuids)

\* a version-1 string went through redact, which took it for a token
C11_Witness ==
  /\ Scrubbed /\ NotVersion4
  /\ MarkedText[15] = "1"
  /\ redacted.counts.tokens = 1

\* the spans TOKEN_CANDIDATE_RE matches in the input
TokenCandidates ==
  FindIter("TOKEN_CANDIDATE_RE", input)

\* the text of the span has an order-0 byte entropy of 3.5 or more
EntropyQualifies(span) ==
  EntropyE6(SubSeq(input, span[1], span[2] - 1)) >= 3500000

\* the characters of the span stand in the output as they are
CopiedThrough(span) ==
  \A i \in span[1]..(span[2] - 1) :
    \E x \in 1..Len(redacted.org) :
      /\ redacted.org[x] = [from |-> i, to |-> i + 1, ph |-> FALSE]
      /\ redacted.text[x] = input[i]

\* the span stands in the output as the Token placeholder number n
ReplacedAsToken(span, n) ==
  \E p \in PlaceholderStarts(redacted) :
    /\ redacted.org[p].from = span[1]
    /\ redacted.org[p].to = span[2]
    /\ PlaceholderTextAt(redacted, p) =
         IF Stable THEN TOKEN_PREFIX \o to_string(n) \o <<">">>
         ELSE FixedText("tokens")

\* scan and redact treat the k-th candidate as its entropy demands: at 3.5
\* or more it is reported, replaced and numbered after the qualifying
\* candidates before it; below, it is not reported and is copied
TreatedByEntropy(k) ==
  LET cand == TokenCandidates
      rank == Cardinality({j \in 1..k : EntropyQualifies(cand[j])})
  IN  IF EntropyQualifies(cand[k])
      THEN /\ \E j \in 1..Len(detections.tokens) : detections.tokens[j] = cand[k]
           /\ ReplacedAsToken(cand[k], rank)
      ELSE /\ \A j \in 1..Len(detections.tokens) : detections.tokens[j] # cand[k]
           /\ CopiedThrough(cand[k])

\* C12: a boundary-delimited run of 32 or more URL-safe base64 characters
\* is reported by scan and replaced by the Token pass if and only if its
\* entropy is 3.5 or more; a run below is copied, is not counted and takes
\* no Token number; counts.tokens is the number of runs at 3.5 or more.
C12_TokenEntropyThreshold ==
  Scrubbed =>
    /\ \A k \in 1..Len(TokenCandidates) : TreatedByEntropy(k)
    /\ redacted.counts.tokens =
         Cardinality({k \in 1..Len(TokenCandidates) :
                        EntropyQualifies(TokenCandidates[k])})

\* the same with the runs of F64RoundsBelow left aside
C12_ThresholdButForRounding ==
  (Scrubbed /\ \A k \in 1..Len(TokenCandidates) :
                 SubSeq(input, TokenCandidates[k][1], TokenCandidates[k][2] - 1)
                   \notin F64RoundsBelow) =>
    /\ \A k \in 1..Len(TokenCandidates) : TreatedByEntropy(k)
    /\ redacted.counts.tokens =
         Cardinality({k \in 1..Len(TokenCandidates) :
                        EntropyQualifies(TokenCandidates[k])})

\* every character of the text is the same one
IsUniform(t) ==
  \A k \in 1..Len(t) : t[k] = t[1]

\* C13: shannon_entropy is 0 for the empty string and for a string of one
\* repeated byte; scan reports no Token in such a document and redact
\* returns it unchanged with counts.tokens = 0, whatever its length.
C13_EntropyFloor ==
  (IsUniform(input) /\ input \in Seq(Alnum \cup {"_", "-"})) =>
    /\ shannon_entropy(input) = 0
    /\ Scrubbed =>
         /\ detections.tokens = << >>
         /\ redacted.text = input
         /\ redacted.counts.tokens = 0

\* a run of one character that is long enough to be a candidate went
\* through scan and redact
C13_Witness ==
  /\ Scrubbed /\ Stable
  /\ IsUniform(input)
  /\ Len(input) > 32
  /\ TokenCandidates # << >>

\* the spans of category c as detect returns them: byte offsets
ScanSpans(c) ==
  [k \in 1..Len(detections[c]) |-> ByteSpan(input, detections[c][k])]

\* C15: each of the five lists of scan holds spans (start, end) with
\* start < end <= len(document), each starting at or after the end of the
\* one before it, so in strictly increasing order of start.
C15_ScanSpanInvariants ==
  Scrubbed =>
    \A c \in Categories :
      /\ \A k \in 1..Len(ScanSpans(c)) :
           /\ 0 <= ScanSpans(c)[k][1]
           /\ ScanSpans(c)[k][1] < ScanSpans(c)[k][2]
           /\ ScanSpans(c)[k][2] <= Len(Utf8(input))
      /\ \A k \in 1..(Len(ScanSpans(c)) - 1) :
           /\ ScanSpans(c)[k][2] <= ScanSpans(c)[k + 1][1]
           /\ ScanSpans(c)[k][1] < ScanSpans(c)[k + 1][1]

\* scan found two spans or more in one category, after a two-byte character
C15_Witness ==
  /\ Scrubbed
  /\ \E c \in Categories :
       /\ Len(detections[c]) >= 2
       /\ ScanSpans(c)[1][1] > detections[c][1][1] - 1

WatchExited ==
  watch_pc \in {"exit2", "exit3"}

\* the clipboard holds what the process wrote, or a text of the user that
\* needs no sanitizing
ClipboardSanitized ==
  \/ owner = "scrubby"
  \/ Sanitized(clipboard) = clipboard

\* C17: in watch mode, whenever the user has put a text in the clipboard
\* whose sanitized form differs from it and copies nothing after it, the
\* process eventually overwrites the clipboard with a sanitized text,
\* whatever it read or wrote before, unless it has exited on a clipboard
\* error.
C17_WatchSanitizesEveryChange ==
  []<>(ClipboardSanitized \/ WatchExited)

\* C18: verify_license_file_with_key returns Ok exactly for the files whose
\* first line is the header, whose next two lines carry the payload: and
\* signature: prefixes with valid base64, whose signature verifies over the
\* decoded payload under the key given and whose payload is UTF-8 (lines taken
\* without the white space around them); the info is then the payload's
\* email, plan, expires and device_id; every other file gives Err and no
\* info.
C18_LicenceAcceptance ==
  license_pc = "verified" =>
    /\ verified.ok <=>
         /\ license_env.broken = "nothing"
         /\ B64Decode(license_env.public_key_b64).bytes = verifying_key(SignerSeed)
    /\ verified.ok => verified.info = license_env.fields
    /\ ~verified.ok => (verified.info = NoInfo /\ verified.message # "")

\* a file laid out with white space and a payload written by hand was
\* accepted with three of its fields set
C18_Witness ==
  /\ license_pc = "verified"
  /\ verified.ok
  /\ verified.info.plan = Some(<<"t", "e", "a", "m">>)
  /\ verified.info.device_id # None
  /\ verified.info.expires = None
  /\ license_env.file[1][1] = " "

\* check_license has answered with a licence: Ok(Some(info))
LicenceAccepted ==
  checked.ok /\ checked.license # None

\* check_license takes the licence from the file, and the file verifies
\* under the key of the build
VerifiedLicenceFile ==
  /\ ~DevBypass(license_env)
  /\ license_env.config_dir
  /\ license_env.file # None
  /\ license_env.broken = "nothing"
  /\ license_env.public_key_b64 = B64Encode(verifying_key(SignerSeed))

\* the device ids a licence may name on this machine: none, or its own
DevicesAllowedHere ==
  {None, Some(current_device_id(license_env.machine))}

\* C19: a verified licence that names a device_id is accepted only on the
\* machine with that device id and is an error on every other; one that
\* names none is accepted on any machine; and check_license answers
\* Ok(Some) from a licence file only with a device_id that passed this check.
C19_DeviceBinding ==
  license_pc = "checked" =>
    /\ VerifiedLicenceFile =>
         /\ LicenceAccepted <=> license_env.fields.device_id \in DevicesAllowedHere
         /\ ~LicenceAccepted =>
              (~checked.ok /\ checked.message = "License is not valid for this device")
    /\ (LicenceAccepted /\ ~DevBypass(license_env)) =>
         /\ checked.license[1].device_id \in DevicesAllowedHere
         /\ checked.license[1] = license_env.fields

\* a licence verified and bound to another machine was rejected
C19_Witness ==
  /\ license_pc = "checked"
  /\ VerifiedLicenceFile
  /\ license_env.fields.device_id # None
  /\ license_env.fields.device_id # Some(current_device_id(license_env.machine))
  /\ ~checked.ok

\* the request carries the signature of its body under the secret of the
\* server, in a header the handler reads
SignatureVerifies ==
  request.signature = "valid"

\* the request passes every check of the handler: its signature verifies
\* and its body is the purchase event with a device_id
PassesAllChecks ==
  SignatureVerifies /\ request.content = "purchase"

\* the answer to a request that fails a check, by the first check it fails
RejectionOf(req) ==
  IF req.signature \in {"missing", "not text"}
  THEN [status |-> 400, body |-> "Missing signature"]
  ELSE IF req.signature = "invalid"
       THEN [status |-> 401, body |-> "Invalid signature"]
       ELSE IF req.content \in {"not JSON", "not the payload"}
            THEN [status |-> 400, body |-> "Invalid JSON"]
            ELSE IF req.content = "other event"
                 THEN [status |-> 200, body |-> "Ignored event"]
                 ELSE [status |-> 400, body |-> "Missing device_id"]

\* the server can issue: its private key is a key and its directory can be
\* written
CanIssue ==
  server.key = "good" /\ server.out_dir.writable

\* the file written is a licence of the vendor for the buyer and the device
\* of the request, under the name of the buyer
LicenceWritten ==
  /\ written # None
  /\ written[1].path \in {<<".", "/", "l", "i", "c", "e", "n", "s", "e", "s", "/", "a", "_", "b", "_", "c", "o", "m", "_", "l", "i", "c", "e", "n", "s", "e", ".", "k", "e", "y">>,
                          <<".", "/", "l", "i", "c", "e", "n", "s", "e", "s", "/", "u", "n", "k", "n", "o", "w", "n", "_", "l", "i", "c", "e", "n", "s", "e", ".", "k", "e", "y">>}
  /\ (written[1].path = <<".", "/", "l", "i", "c", "e", "n", "s", "e", "s", "/", "u", "n", "k", "n", "o", "w", "n", "_", "l", "i", "c", "e", "n", "s", "e", ".", "k", "e", "y">>) <=> (request.email = Unknown)
  /\ verify_license_file_with_key(written[1].content, verifying_key(SignerSeed)).ok
  /\ verify_license_file_with_key(written[1].content, verifying_key(SignerSeed)).info
       = [email |-> Some(request.email), plan |-> Some(<<"p", "r", "o">>), expires |-> None,
          device_id |-> Some(request.device_id)]

AvailableBackends ==
  {b \in {"Pbpaste", "WlPaste", "Xclip", "Xsel"} :
     \/ b = "Pbpaste" /\ {"pbpaste", "pbcopy"} \subseteq desktop.commands
     \/ b = "WlPaste" /\ {"wl-paste", "wl-copy"} \subseteq desktop.commands
     \/ b = "Xclip" /\ "xclip" \in desktop.commands
     \/ b = "Xsel" /\ "xsel" \in desktop.commands}

\* the backends in the order of preference on the desktop
Preference ==
  <<"Pbpaste">>
    \o (IF desktop.wayland THEN <<"WlPaste">> ELSE << >>)
    \o (IF desktop.x11 THEN <<"Xclip", "Xsel">> ELSE << >>)
    \o <<"WlPaste", "Xclip", "Xsel">>

\* C21: pick_backend returns None exactly when no utility is available,
\* and otherwise the first available backend in the order pbpaste; wl-paste
\* in a Wayland session; xclip, xsel in an X11 session; wl-paste, xclip,
\* xsel.
C21_BackendChoice ==
  backend # << >> =>
    /\ backend[1] = None <=> AvailableBackends = {}
    /\ backend[1] # None =>
         \E k \in 1..Len(Preference) :
           /\ backend[1] = Some(Preference[k])
           /\ Preference[k] \in AvailableBackends
           /\ \A j \in 1..(k - 1) : Preference[j] \notin AvailableBackends

\* with both sessions set and both wl-paste and xclip there, wl-paste was
\* chosen
C21_Witness ==
  /\ backend = <<Some("WlPaste")>>
  /\ desktop.wayland
  /\ desktop.x11
  /\ {"wl-paste", "wl-copy", "xclip", "xsel"} \subseteq desktop.commands
  /\ "pbcopy" \notin desktop.commands

\* the lines of the config file that are wrong, by number
WrongLines ==
  {k \in 1..Len(config_text.made_of) : config_text.made_of[k].what = "wrong"}

\* the value the last line that sets key gives it, None when no line does
LastSetting(key) ==
  LET at == {k \in 1..Len(config_text.made_of) :
               config_text.made_of[k].what = "set" /\ config_text.made_of[k].key = key}
      last == CHOOSE k \in at : \A j \in at : j <= k
  IN  IF at = {} THEN None
      ELSE IF key = "interval_ms" THEN Some(config_text.made_of[last].num)
      ELSE Some(config_text.made_of[last].bool)

\* C22: parse_config returns Ok exactly when no line is wrong (every line
\* is blank, a comment, or sets one of the three keys to a value valid for
\* it); the Config then holds for every key the value of the last line that
\* sets it and None when no line does; otherwise it returns Err for the
\* first wrong line, numbered from 1.
C22_ConfigParsing ==
  parsed # << >> =>
    /\ parsed[1].ok <=> WrongLines = {}
    /\ parsed[1].ok =>
         \A key \in {"stable_placeholders", "json_report", "interval_ms"} :
           parsed[1].cfg[key] = LastSetting(key)
    /\ ~parsed[1].ok =>
         /\ parsed[1].error.line \in WrongLines
         /\ \A k \in WrongLines : parsed[1].error.line <= k

\* a file that sets stable_placeholders twice, to true and then to false,
\* was parsed
C22_Witness ==
  /\ parsed # << >>
  /\ parsed[1].ok
  /\ Len(config_text.made_of) = 2
  /\ config_text.made_of[1].key = "stable_placeholders"
  /\ config_text.made_of[1].bool
  /\ config_text.made_of[2].key = "stable_placeholders"
  /\ ~config_text.made_of[2].bool
  /\ parsed[1].cfg.stable_placeholders = Some(FALSE)

\* the command has done this before the i-th thing it did
DoneBefore(e, i) ==
  \E j \in 1..(i - 1) : events[j] = e

LicenceReturned ==
  Event("check_license", "licence", 0)

\* Pro behaviour: scrubbing with stable placeholders, a JSON report,
\* loading a config file, reading stdin or a file
IsProBehaviour(e) ==
  \/ e.kind = "scrub" /\ e.what = "stable"
  \/ e.kind = "report" /\ e.what = "json"
  \/ e.kind = "load_config"
  \/ e.kind = "read" /\ e.what \in {"stdin", "file"}

\* reading, scrubbing or writing text
TouchesText(e) ==
  e.kind \in {"read", "scrub", "write", "report"}

\* one of --json, --stable, --config, --stdin, --file is on the command
\* line
ProRequested ==
  \E k \in 1..Len(argv) :
    argv[k] \in {<<"-", "-", "j", "s", "o", "n">>,
                 <<"-", "-", "s", "t", "a", "b", "l", "e">>,
                 <<"-", "-", "c", "o", "n", "f", "i", "g">>,
                 <<"-", "-", "s", "t", "d", "i", "n">>,
                 <<"-", "-", "f", "i", "l", "e">>}

\* C23: Pro behaviour happens only after check_license has returned a
\* licence; with a Pro option on the command line no text is read,
\* scrubbed or written before that; and when check_license fails or finds
\* no licence the command exits with status 3 at once, having read,
\* scrubbed and written nothing.
C23_LicenceGatePrecedesPro ==
  /\ \A i \in 1..Len(events) :
       IsProBehaviour(events[i]) => DoneBefore(LicenceReturned, i)
  /\ ProRequested =>
       \A i \in 1..Len(events) : TouchesText(events[i]) => DoneBefore(LicenceReturned, i)
  /\ \A i \in 1..Len(events) :
       (events[i].kind = "check_license" /\ events[i] # LicenceReturned) =>
         /\ i + 1 = Len(events)
         /\ events[i + 1] = Exit(3)
         /\ \A j \in 1..Len(events) : ~TouchesText(events[j]) /\ events[j].kind # "load_config"
  /\ (ProRequested /\ cli_pc \in {"config", "run", "watching"}) =>
       DoneBefore(LicenceReturned, Len(events) + 1)

\* with a licence, a config file that turns both on was loaded, and the
\* clipboard was scrubbed with stable placeholders and reported in JSON
C23_Witness ==
  /\ cli_pc = "done"
  /\ Len(events) = 6
  /\ events[1] = LicenceReturned
  /\ events[2] = Event("load_config", "ok", 0)
  /\ events[4] = Event("scrub", "stable", 0)
  /\ events[6] = Event("report", "json", 0)
  /\ ~cli.stable

\* C24: run_watch is started with an interval of at least 100 ms, whether
\* it is the default, comes from --interval-ms or from interval_ms of a
\* config file.
C24_PollIntervalLowerBound ==
  \A i \in 1..Len(events) : events[i].kind = "run_watch" => events[i].n >= 100

\* the same for the commands that load no config file: the default and
\* --interval-ms
C24_LowerBoundWithoutConfig ==
  \A i \in 1..Len(events) :
    (events[i].kind = "run_watch" /\ cli.config_path = None) => events[i].n >= 100

\* the spans of the input that the result r has a placeholder for
ReplacedSpans(r) ==
  {<<r.org[k].from, r.org[k].to>> : k \in {x \in 1..Len(r.org) : r.org[x].ph}}

\* the text of r with the _n suffix taken out of every placeholder that
\* redact wrote: no placeholder name holds a digit or an underscore
WithoutSuffixes(r) ==
  LET keep == {k \in 1..Len(r.text) : ~(r.org[k].ph /\ r.text[k] \in Digit \cup {"_"})}
  IN  [i \in 1..Cardinality(keep) |->
         r.text[CHOOSE k \in keep : Cardinality({j \in keep : j <= k}) = i]]

\* the result of redact on the same input in the given mode
RedactedAs(stable) ==
  IF options.stable_placeholders = stable THEN redacted
  ELSE redact(input, detections, [stable_placeholders |-> stable])

\* C25: stable and fixed modes agree: on every document, redact with
\* stable_placeholders = true and with stable_placeholders = false replace
\* the same spans and return equal counts in all five categories, and the
\* stable-mode text with the _n suffix removed from each placeholder is the
\* fixed-mode text.
C25_StableAndFixedAgree ==
  Scrubbed =>
    /\ ReplacedSpans(RedactedAs(TRUE)) = ReplacedSpans(RedactedAs(FALSE))
    /\ RedactedAs(TRUE).counts = RedactedAs(FALSE).counts
    /\ WithoutSuffixes(RedactedAs(TRUE)) = RedactedAs(FALSE).text
    /\ WithoutSuffixes(RedactedAs(FALSE)) = RedactedAs(FALSE).text

\* a document scrubbed in stable mode with three spans replaced, by
\* numbered placeholders of two passes or more
C25_Witness ==
  /\ Scrubbed
  /\ options.stable_placeholders
  /\ Cardinality({c \in Categories : Len(NumbersOf(redacted.text, c)) >= 1}) >= 2
  /\ Cardinality(ReplacedSpans(redacted)) >= 3
  /\ redacted.text # RedactedAs(FALSE).text

====
